---- MODULE Spec2Model ----
(***************************************************************************)
(* Model of the eduVULCAN token fetcher                                    *)
(* (src/eduvulcan_token_fetcher/app/main.py): the token cache file, the    *)
(* token validation helpers and the fetch orchestrator `run` (Spec), the   *)
(* helpers called on their own (HelperSpec) and the browser steps of       *)
(* retrieve_jwt (FlowSpec); FairSpec and FairFlowSpec add the fairness of  *)
(* the event loop that runs them.                                          *)
(* The two clients of the token are modelled next to it: the token loop    *)
(* of src/tools/eduvulcan_plan.py (ToolSpec) and get_schedule of           *)
(* src/custom_components/eduvulcan/api.py (ApiSpec).                       *)
(*                                                                         *)
(* Strings are sequences of symbols.  A symbol is a one-character string,  *)
(* or the name of an encoded blob ("B1", ...) that stands for one whole    *)
(* base64url segment; DecodeTable gives what such a segment decodes to.    *)
(* JSON values are records [k, n, s]: k the kind, n the number (or list    *)
(* length), s the string.  A missing key and JSON null are both kind       *)
(* "null", as dict.get() returns None for either.                          *)
(*                                                                         *)
(* The file system is taken to be healthy: unlink of an existing file and  *)
(* open-for-write succeed.                                                 *)
(***************************************************************************)
EXTENDS Integers, Sequences, FiniteSets, TLC

\* ------------------------------------------------------------------ bounds
\* The clock runs over 0..MaxTime.
MaxTime == 2
\* Number of orchestrator invocations (runs of the add-on) in one behaviour.
MaxInvocations == 2
\* Longest string given to is_jwt on its own.
MaxLen == 5
\* Longest Tokens list given to extract_jwt on its own.
MaxItems == 2
\* Number of runs of retrieve_jwt in one behaviour of the login flow.
MaxRuns == 2

\* The number of polls after which a wait of the login flow gives up.
MaxPolls == 2

\* ------------------------------------------------------------- JSON values
Null == [k |-> "null", n |-> 0, s |-> <<>>]
Num(x) == [k |-> "num", n |-> x, s |-> <<>>]
Str(x) == [k |-> "str", n |-> 0, s |-> x]
List(len) == [k |-> "list", n |-> len, s |-> <<>>]

\* Python truthiness of a JSON value (the `or` chains and `if not x` tests).
Truthy(v) ==
    CASE v.k = "null" -> FALSE
      [] v.k = "num"  -> v.n # 0
      [] v.k = "str"  -> Len(v.s) > 0
      [] v.k = "list" -> v.n > 0
      [] OTHER        -> FALSE

\* Python `a or b`.
Or(a, b) == IF Truthy(a) THEN a ELSE b

DigitChar == <<"0", "1", "2", "3", "4", "5", "6", "7", "8", "9">>

IsDigit(c) == \E i \in 1..10 : DigitChar[i] = c

DigitVal(c) == (CHOOSE i \in 1..10 : DigitChar[i] = c) - 1

RECURSIVE Digits(_)
\* Decimal digits of a natural number, as str(int) prints them.
Digits(x) == IF x < 10 THEN <<DigitChar[x + 1]>>
             ELSE Digits(x \div 10) \o <<DigitChar[(x % 10) + 1]>>

\* Python str(value) for the value kinds of the model.
PyStr(v) ==
    CASE v.k = "str"  -> v.s
      [] v.k = "num"  -> Digits(v.n)
      [] v.k = "list" -> <<"[", "]">>
      [] OTHER        -> <<"N", "o", "n", "e">>

RECURSIVE DecimalValue(_)
DecimalValue(s) == IF s = <<>> THEN 0
                   ELSE 10 * DecimalValue(SubSeq(s, 1, Len(s) - 1)) + DigitVal(s[Len(s)])

\* Python float(value): [ok, x].  Numbers convert to themselves, a string
\* converts when it is a non-empty run of decimal digits (ValueError
\* otherwise), a list raises TypeError.
ToFloat(v) ==
    CASE v.k = "num" -> [ok |-> TRUE, x |-> v.n]
      [] v.k = "str" ->
           IF Len(v.s) > 0 /\ \A i \in 1..Len(v.s) : IsDigit(v.s[i])
           THEN [ok |-> TRUE, x |-> DecimalValue(v.s)]
           ELSE [ok |-> FALSE, x |-> 0]
      [] OTHER -> [ok |-> FALSE, x |-> 0]

\* ------------------------------------------------------------------ strings
RECURSIVE CountDots(_)
\* str.count(".")
CountDots(s) == IF s = <<>> THEN 0
                ELSE (IF Head(s) = "." THEN 1 ELSE 0) + CountDots(Tail(s))

RECURSIVE SplitDots(_)
\* str.split("."): the segments between the dots (CountDots(s) + 1 of them).
SplitDots(s) ==
    IF \A i \in 1..Len(s) : s[i] # "." THEN <<s>>
    ELSE LET d == CHOOSE i \in 1..Len(s) :
                     s[i] = "." /\ \A j \in 1..(i - 1) : s[j] # "."
         IN <<SubSeq(s, 1, d - 1)>> \o SplitDots(SubSeq(s, d + 1, Len(s)))

\* Mutant: two dots or fewer.
is_jwt_AtMostTwo(value) == value.k = "str" /\ CountDots(value.s) <= 2

\* Mutant: two dots or more.
is_jwt_AtLeastTwo(value) == value.k = "str" /\ CountDots(value.s) >= 2

is_jwt(value) == value.k = "str" /\ CountDots(value.s) = 2

\* ------------------------------------------------------ bytes and base64
\* The printable ASCII characters, code 32 to 126, in the order of their
\* codes; "GRAVE" is the name of the grave accent, code 96.
AsciiChars ==
    <<" ", "!", "\"", "#", "$", "%", "&", "'", "(", ")", "*", "+", ",",
      "-", ".", "/", "0", "1", "2", "3", "4", "5", "6", "7", "8", "9",
      ":", ";", "<", "=", ">", "?", "@", "A", "B", "C", "D", "E", "F",
      "G", "H", "I", "J", "K", "L", "M", "N", "O", "P", "Q", "R", "S",
      "T", "U", "V", "W", "X", "Y", "Z", "[", "\\", "]", "^", "_", "GRAVE",
      "a", "b", "c", "d", "e", "f", "g", "h", "i", "j", "k", "l", "m",
      "n", "o", "p", "q", "r", "s", "t", "u", "v", "w", "x", "y", "z",
      "{", "|", "}", "~">>

\* What bytes.decode("utf-8") gives for a byte the model has no character
\* for (a control character, or a byte that is no ASCII).
BadChar == "<?>"

\* One byte of payload_bytes.decode("utf-8").
Chr(b) == IF b \in 32..126 THEN AsciiChars[b - 31] ELSE BadChar

\* The base64url alphabet, in the order of the values 0..63.
Base64Chars ==
    <<"A", "B", "C", "D", "E", "F", "G", "H", "I", "J", "K", "L", "M",
      "N", "O", "P", "Q", "R", "S", "T", "U", "V", "W", "X", "Y", "Z",
      "a", "b", "c", "d", "e", "f", "g", "h", "i", "j", "k", "l", "m",
      "n", "o", "p", "q", "r", "s", "t", "u", "v", "w", "x", "y", "z",
      "0", "1", "2", "3", "4", "5", "6", "7", "8", "9", "-", "_">>

\* The characters the decoder takes as data: the base64url alphabet and,
\* untranslated, "+" and "/" of the standard alphabet.
IsBase64Char(c) == c \in {"+", "/"} \/ \E i \in 1..64 : Base64Chars[i] = c

IsPadChar(c) == c = "="

Base64Value(c) ==
    CASE c = "+" -> 62
      [] c = "/" -> 63
      [] OTHER   -> (CHOOSE i \in 1..64 : Base64Chars[i] = c) - 1

RECURSIVE DecodeQuads(_)
\* The bytes of a run of 6-bit values: four values give three bytes, a rest
\* of three gives two, a rest of two gives one; left-over bits are dropped.
DecodeQuads(v) ==
    IF Len(v) < 2 THEN <<>>
    ELSE LET b1 == v[1] * 4 + (v[2] \div 16)
         IN IF Len(v) = 2 THEN <<b1>>
            ELSE LET b2 == (v[2] % 16) * 16 + (v[3] \div 4)
                 IN IF Len(v) = 3 THEN <<b1, b2>>
                    ELSE <<b1, b2, (v[3] % 4) * 64 + v[4]>>
                             \o DecodeQuads(SubSeq(v, 5, Len(v)))

\* base64.urlsafe_b64decode(padded), not validating: [ok, bytes].  Characters
\* that are neither data nor "=" are discarded; the call raises when the
\* data characters left are one more than a multiple of four, or a rest of
\* two or three comes with less padding than it needs.
urlsafe_b64decode(padded) ==
    LET data == SelectSeq(padded, IsBase64Char)
        pads == Len(SelectSeq(padded, IsPadChar))
        rest == Len(data) % 4
    IN IF rest = 1 \/ (rest = 2 /\ pads < 2) \/ (rest = 3 /\ pads < 1)
       THEN [ok |-> FALSE, bytes |-> <<>>]
       ELSE [ok |-> TRUE,
             bytes |-> DecodeQuads([i \in 1..Len(data) |-> Base64Value(data[i])])]

\* ----------------------------------------------------------------- payloads
\* A decoded payload: the three claims the program reads.
Payload(e, t, T) == [exp |-> e, tenant |-> t, Tenant |-> T]

NoPayload == Payload(Null, Null, Null)

\* A JSON object as a value: n counts its members.
Dict(len) == [k |-> "dict", n |-> len, s |-> <<>>]

\* ------------------------------------------------------------- json.loads
\* The parser reads a text, a sequence of characters, from position i on and
\* gives [ok, v, obj, next]: the value, for an object the claims the program
\* reads, and the position after the value.  It knows the JSON of the
\* model's values: null, unsigned integers, strings without escapes, arrays
\* and objects; blanks separate tokens.
ParseFail == [ok |-> FALSE, v |-> Null, obj |-> NoPayload, next |-> 0]

Parsed(value, o, j) == [ok |-> TRUE, v |-> value, obj |-> o, next |-> j]

RECURSIVE SkipBlanks(_, _)
SkipBlanks(cs, i) ==
    IF i <= Len(cs) /\ cs[i] = " " THEN SkipBlanks(cs, i + 1) ELSE i

RECURSIVE EndOfDigits(_, _)
\* The position after the run of digits that starts at i.
EndOfDigits(cs, i) ==
    IF i <= Len(cs) /\ IsDigit(cs[i]) THEN EndOfDigits(cs, i + 1) ELSE i

RECURSIVE ClosingQuote(_, _)
\* The position of the quote that closes the string whose content starts at
\* i; 0 when there is none or an escape comes first.
ClosingQuote(cs, i) ==
    IF i > Len(cs) \/ cs[i] = "\\" THEN 0
    ELSE IF cs[i] = "\"" THEN i
    ELSE ClosingQuote(cs, i + 1)

\* The claim of the payload a key names, "" for any other key.
ClaimOf(key) ==
    CASE key = <<"e", "x", "p">>                     -> "exp"
      [] key = <<"t", "e", "n", "a", "n", "t">>      -> "tenant"
      [] key = <<"T", "e", "n", "a", "n", "t">>      -> "Tenant"
      [] OTHER                                       -> ""

RECURSIVE ParseValue(_, _)
RECURSIVE ParseElements(_, _, _)
RECURSIVE ParseMembers(_, _, _, _)

\* A string whose content starts at i and whose closing quote is at j.
StringAt(cs, i, j) ==
    IF j = 0 THEN ParseFail
    ELSE Parsed(Str(SubSeq(cs, i, j - 1)), NoPayload, j + 1)

\* A number that starts at i and ends before j; a leading zero stands alone.
NumberAt(cs, i, j) ==
    IF cs[i] = "0" /\ j > i + 1 THEN ParseFail
    ELSE Parsed(Num(DecimalValue(SubSeq(cs, i, j - 1))), NoPayload, j)

\* The value that starts at i, no blank.
ValueAt(cs, i) ==
    IF i > Len(cs) THEN ParseFail
    ELSE IF cs[i] = "\"" THEN StringAt(cs, i + 1, ClosingQuote(cs, i + 1))
    ELSE IF IsDigit(cs[i]) THEN NumberAt(cs, i, EndOfDigits(cs, i))
    ELSE IF i + 3 <= Len(cs) /\ SubSeq(cs, i, i + 3) = <<"n", "u", "l", "l">>
         THEN Parsed(Null, NoPayload, i + 4)
    ELSE IF cs[i] = "[" THEN ParseElements(cs, i + 1, 0)
    ELSE IF cs[i] = "{" THEN ParseMembers(cs, i + 1, NoPayload, 0)
    ELSE ParseFail

ParseValue(cs, i0) == ValueAt(cs, SkipBlanks(cs, i0))

\* What follows an element at j: a comma and more elements, or the end.
ElementsAfter(cs, j, n) ==
    IF j > Len(cs) THEN ParseFail
    ELSE IF cs[j] = "," THEN ParseElements(cs, j + 1, n + 1)
    ELSE IF cs[j] = "]" THEN Parsed(List(n + 1), NoPayload, j + 1)
    ELSE ParseFail

\* The element e is read.
ElementRead(cs, e, n) ==
    IF ~e.ok THEN ParseFail ELSE ElementsAfter(cs, SkipBlanks(cs, e.next), n)

ElementsAt(cs, i, n) ==
    IF i > Len(cs) THEN ParseFail
    ELSE IF n = 0 /\ cs[i] = "]" THEN Parsed(List(0), NoPayload, i + 1)
    ELSE ElementRead(cs, ParseValue(cs, i), n)

\* The elements of an array of which n are read, from position i0 on.
ParseElements(cs, i0, n) == ElementsAt(cs, SkipBlanks(cs, i0), n)

\* What follows a member at j: a comma and more members, or the end.
MembersAfter(cs, j, acc, n) ==
    IF j > Len(cs) THEN ParseFail
    ELSE IF cs[j] = "," THEN ParseMembers(cs, j + 1, acc, n + 1)
    ELSE IF cs[j] = "}" THEN Parsed(Dict(n + 1), acc, j + 1)
    ELSE ParseFail

\* The member of the given key with value e is read: a claim of the payload
\* replaces what acc holds for it.
MemberRead(cs, key, e, acc, n) ==
    IF ~e.ok THEN ParseFail
    ELSE MembersAfter(cs, SkipBlanks(cs, e.next),
                      IF ClaimOf(key) = "" THEN acc
                      ELSE [acc EXCEPT ![ClaimOf(key)] = e.v],
                      n)

\* The key ends at the quote q and the colon is expected at c.
MemberColon(cs, i, q, c, acc, n) ==
    IF c > Len(cs) THEN ParseFail
    ELSE IF cs[c] # ":" THEN ParseFail
    ELSE MemberRead(cs, SubSeq(cs, i, q - 1), ParseValue(cs, c + 1), acc, n)

\* The key whose content starts at i and whose closing quote is at q.
MemberKey(cs, i, q, acc, n) ==
    IF q = 0 THEN ParseFail
    ELSE MemberColon(cs, i, q, SkipBlanks(cs, q + 1), acc, n)

MembersAt(cs, i, acc, n) ==
    IF i > Len(cs) THEN ParseFail
    ELSE IF n = 0 /\ cs[i] = "}" THEN Parsed(Dict(0), acc, i + 1)
    ELSE IF cs[i] # "\"" THEN ParseFail
    ELSE MemberKey(cs, i + 1, ClosingQuote(cs, i + 1), acc, n)

\* The members of an object of which n are read, from position i0 on; acc
\* holds the claims read so far, a later member replaces an earlier one of
\* the same key.
ParseMembers(cs, i0, acc, n) == MembersAt(cs, SkipBlanks(cs, i0), acc, n)

NotJson == [kind |-> "notjson", obj |-> NoPayload]

\* The value r was read from the text.
LoadsResult(cs, r) ==
    IF ~r.ok THEN NotJson
    ELSE IF SkipBlanks(cs, r.next) <= Len(cs) THEN NotJson
    ELSE IF r.v.k = "dict" THEN [kind |-> "object", obj |-> r.obj]
    ELSE IF r.v.k = "list" THEN [kind |-> "array", obj |-> NoPayload]
    ELSE [kind |-> "scalar", obj |-> NoPayload]

LoadsText(cs) ==
    IF \E i \in 1..Len(cs) : cs[i] = BadChar THEN NotJson
    ELSE LoadsResult(cs, ParseValue(cs, 1))

\* json.loads(payload_bytes.decode("utf-8")): [kind, obj], the kind of the
\* value ("object", "array", "scalar") or "notjson" when either call raises.
json_loads(payload_bytes) ==
    LoadsText([i \in 1..Len(payload_bytes) |-> Chr(payload_bytes[i])])

\* What each encoded segment symbol decodes to: a JSON object, a JSON value
\* that is no object, or bytes that are no JSON.
DecodeTable ==
    [B1 |-> [kind |-> "object", obj |-> Payload(Num(1), Str(<<"t", "1">>), Null)],
     B2 |-> [kind |-> "object", obj |-> Payload(Num(2), Null, Str(<<"T", "2">>))],
     B3 |-> [kind |-> "object", obj |-> Payload(Null, Str(<<>>), Str(<<"T", "2">>))],
     B4 |-> [kind |-> "object", obj |-> Payload(Str(<<"2">>), Num(7), Null)],
     B5 |-> [kind |-> "object",
             obj |-> Payload(Str(<<"x">>), Str(<<"t", "1">>), Str(<<"T", "2">>))],
     B6 |-> [kind |-> "object", obj |-> Payload(Num(1), Null, Null)],
     B7 |-> [kind |-> "object", obj |-> Payload(List(0), Null, Str(<<>>))],
     B8 |-> [kind |-> "object", obj |-> Payload(Num(9), Str(<<"t", "1">>), Null)],
     BA |-> [kind |-> "array", obj |-> NoPayload],
     BS |-> [kind |-> "scalar", obj |-> NoPayload],
     BJ |-> [kind |-> "notjson", obj |-> NoPayload]]

BlobNames == DOMAIN DecodeTable

RECURSIVE Pad(_)
\* "=" * n
Pad(n) == IF n = 0 THEN <<>> ELSE <<"=">> \o Pad(n - 1)

\* Mutant: the segment is decoded as it stands.
Padded_None(payload_b64) == payload_b64

\* decode_jwt_payload, `padded`: -len % 4 pad characters are appended.
Padded(payload_b64) == payload_b64 \o Pad((4 - (Len(payload_b64) % 4)) % 4)

DecodeFail(e) == [ok |-> FALSE, err |-> e, payload |-> NoPayload]

\* decode_jwt_payload from json.loads on: d is what the bytes hold.
DecodedJson(d) ==
    IF d.kind = "notjson" THEN DecodeFail("JWT payload is not valid JSON")
    ELSE IF d.kind # "object" THEN DecodeFail("JWT payload is not a JSON object")
    ELSE [ok |-> TRUE, err |-> "", payload |-> d.obj]

\* decode_jwt_payload from urlsafe_b64decode on.
DecodedBytes(payload_bytes) ==
    IF ~payload_bytes.ok THEN DecodeFail("Failed to decode JWT payload")
    ELSE DecodedJson(json_loads(payload_bytes.bytes))

\* A segment that is one blob symbol decodes as DecodeTable says, any other
\* segment is decoded character by character.
DecodedSegment(payload_b64) ==
    IF Len(payload_b64) = 1 /\ payload_b64[1] \in BlobNames
    THEN DecodedJson(DecodeTable[payload_b64[1]])
    ELSE DecodedBytes(urlsafe_b64decode(Padded(payload_b64)))

\* The parts of jwt_token.split(".").
DecodedParts(parts) ==
    IF Len(parts) # 3 THEN DecodeFail("Invalid JWT format")
    ELSE DecodedSegment(parts[2])

\* decode_jwt_payload: [ok, err, payload].
decode_jwt_payload(jwt_token) == DecodedParts(SplitDots(jwt_token))

\* Mutant: the comparison is time.time() > exp_timestamp.
is_payload_expired_Strict(payload, t) ==
    payload.exp.k # "null" /\ ToFloat(payload.exp).ok /\ t > ToFloat(payload.exp).x

\* is_payload_expired(payload) at clock value t.
is_payload_expired(payload, t) ==
    LET exp_value == payload.exp
    IN IF exp_value.k = "null" THEN FALSE
       ELSE LET f == ToFloat(exp_value)
            IN IF ~f.ok THEN FALSE ELSE t >= f.x

\* ------------------------------------------------------------ the token file
\* OUTPUT_PATH: absent, or present with a content.  A content is text that is
\* no JSON ("garbage"), JSON that is no object ("nonobject"), or a JSON
\* object of which the program reads the keys jwt, tenant and jwt_payload.
\* jwt_payload is [isdict, obj]: whether the value is a JSON object, and it.
FileContent(st, j, t, isd, p) ==
    [state |-> st, jwt |-> j, tenant |-> t,
     jwt_payload |-> [isdict |-> isd, obj |-> p]]

AbsentFile == FileContent("absent", Null, Null, FALSE, NoPayload)

GarbageFile == FileContent("garbage", Null, Null, FALSE, NoPayload)

NonObjectFile == FileContent("nonobject", Null, Null, FALSE, NoPayload)

\* A token record as read_existing_token and fetch_token build it; the
\* record of fetch_token has no needs_write key (FALSE here).
TokenRecord(j, t, p, nw) == [jwt |-> j, tenant |-> t, payload |-> p, needs_write |-> nw]

NoRecord == TokenRecord(<<>>, <<>>, NoPayload, FALSE)

\* Mutant: the claim `Tenant` is looked up before the claim `tenant`.
StoredTenant_Swapped(f, payload) == Or(f.tenant, Or(payload.Tenant, payload.tenant))

\* read_existing_token, the tenant of the stored record.
StoredTenant(f, payload) == Or(f.tenant, Or(payload.tenant, payload.Tenant))

\* read_existing_token at clock value t: kind "record" (a dict is returned),
\* "none" (None is returned) or "raise" (a RuntimeError with message err).
read_existing_token(f, t) ==
    LET None == [kind |-> "none", err |-> "", rec |-> NoRecord]
        Raise(e) == [kind |-> "raise", err |-> e, rec |-> NoRecord]
    IN IF f.state = "absent" THEN None
       ELSE IF f.state = "garbage" THEN None
       ELSE IF f.state # "object" THEN None
       ELSE IF ~is_jwt(f.jwt) THEN None
       ELSE LET jwt_token == f.jwt.s
                needs_write == ~f.jwt_payload.isdict
                dec == decode_jwt_payload(jwt_token)
            IN IF needs_write /\ ~dec.ok THEN Raise(dec.err)
               ELSE LET payload == IF needs_write THEN dec.payload
                                                  ELSE f.jwt_payload.obj
                    IN IF is_payload_expired(payload, t)
                       THEN Raise("Stored token is expired")
                       ELSE LET tenant == StoredTenant(f, payload)
                            IN IF ~Truthy(tenant)
                               THEN Raise("Tenant field not found in stored JWT payload")
                               ELSE [kind |-> "record", err |-> "",
                                     rec |-> TokenRecord(jwt_token, PyStr(tenant),
                                                         payload, needs_write)]

\* remove_token_file: the file after the call.  unlink removes the file, or
\* finds none (FileNotFoundError); the third branch, another error of unlink
\* that is logged, needs a failing file system.
remove_token_file(f) == AbsentFile

\* Mutant: the file is written in the older format, without jwt_payload.
write_token_file_NoPayload(jwt_token, tenant, payload) ==
    FileContent("object", Str(jwt_token), Str(tenant), FALSE, NoPayload)

\* write_token_file: the file after the call; the whole content is replaced.
write_token_file(jwt_token, tenant, payload) ==
    FileContent("object", Str(jwt_token), Str(tenant), TRUE, payload)

\* tools/eduvulcan_plan.py, load_token_from_file on the token file:
\* [ok, err, jwt, tenant].  json.load raises on a missing or unreadable
\* file, data.get on a content that is not an object.
load_token_from_file(f) ==
    IF f.state # "object"
    THEN [ok |-> FALSE, err |-> "not a JSON object", jwt |-> Null, tenant |-> Null]
    ELSE IF ~Truthy(f.jwt) \/ ~Truthy(f.tenant)
    THEN [ok |-> FALSE, err |-> "Plik tokena nie zawiera jwt lub tenant.",
          jwt |-> Null, tenant |-> Null]
    ELSE [ok |-> TRUE, err |-> "", jwt |-> f.jwt, tenant |-> f.tenant]

\* ------------------------------------------------------------ JWT extraction
\* Mutant: the keys are probed in the reverse order.
TokenKeys_Reversed == <<"jwt", "Jwt", "access_token", "AccessToken",
                        "value", "Value", "token", "Token">>

\* The keys extract_jwt probes in a token object, in the order of the code.
TokenKeys == <<"Token", "token", "Value", "value",
               "AccessToken", "access_token", "Jwt", "jwt">>

NoKeys == [key \in {TokenKeys[i] : i \in 1..Len(TokenKeys)} |-> Null]

\* An element of the Tokens collection: a string, or an object (d gives the
\* values of the probed keys, n counts its other keys), or another value.
StrItem(x) == [k |-> "str", s |-> x, d |-> NoKeys, n |-> 0]

DictItem(dd, others) == [k |-> "dict", s |-> <<>>, d |-> dd, n |-> others]

NumItem == [k |-> "num", s |-> <<>>, d |-> NoKeys, n |-> 0]

\* The value of the Tokens / tokens field: missing, a list of elements, or a
\* single object (items holds that object).
NoTokens == [k |-> "null", items |-> <<>>]

TokenList(its) == [k |-> "list", items |-> its]

TokenDict(it) == [k |-> "dict", items |-> <<it>>]

DictLen(it) == it.n + Cardinality({key \in DOMAIN it.d : it.d[key].k # "null"})

TruthyTokens(tv) ==
    CASE tv.k = "null" -> FALSE
      [] tv.k = "list" -> Len(tv.items) > 0
      [] tv.k = "dict" -> DictLen(tv.items[1]) > 0
      [] OTHER         -> FALSE

ApData(T, t) == [Tokens |-> T, tokens |-> t]

RECURSIVE FirstKeyJwt(_, _)
\* The inner loop of extract_jwt from key number i on: [found, jwt].
FirstKeyJwt(item, i) ==
    IF i > Len(TokenKeys) THEN [found |-> FALSE, jwt |-> <<>>]
    ELSE LET token_value == item.d[TokenKeys[i]]
         IN IF is_jwt(token_value) THEN [found |-> TRUE, jwt |-> token_value.s]
            ELSE FirstKeyJwt(item, i + 1)

RECURSIVE ScanTokens(_, _)
\* The outer loop of extract_jwt from element number i on: [found, jwt].
ScanTokens(items, i) ==
    IF i > Len(items) THEN [found |-> FALSE, jwt |-> <<>>]
    ELSE LET item == items[i]
         IN IF item.k = "str" /\ is_jwt(Str(item.s))
            THEN [found |-> TRUE, jwt |-> item.s]
            ELSE IF item.k = "dict" /\ FirstKeyJwt(item, 1).found
                 THEN FirstKeyJwt(item, 1)
                 ELSE ScanTokens(items, i + 1)

\* extract_jwt: [ok, err, jwt].
extract_jwt(ap_data) ==
    LET tokens == IF TruthyTokens(ap_data.Tokens) THEN ap_data.Tokens
                                                  ELSE ap_data.tokens
    IN IF tokens.k = "null"
       THEN [ok |-> FALSE, err |-> "Tokens not found in login response", jwt |-> <<>>]
       ELSE LET r == ScanTokens(tokens.items, 1)
            IN IF r.found THEN [ok |-> TRUE, err |-> "", jwt |-> r.jwt]
               ELSE [ok |-> FALSE, err |-> "JWT token not found in Tokens", jwt |-> <<>>]

\* ---------------------------------------------------------------- login flow
\* What the portal page does in one run of retrieve_jwt: the browser steps up
\* to the submit either all pass (fail = "") or one of them raises, and then
\* the #ap element carries a value (ap.k: "empty", "notjson" or "json").
PageRun(f, apk, data) == [fail |-> f, ap |-> [k |-> apk, data |-> data]]

\* The exceptions the browser steps of retrieve_jwt raise.
FlowErrors ==
    {"Navigation failed",
     "Timed out waiting for selectors",
     "Could not find login field",
     "Could not find next button",
     "Could not find password field",
     "Captcha wait timed out",
     "Could not find submit button",
     "Timed out waiting for token payload"}

\* retrieve_jwt on a page run: [ok, err, jwt].
retrieve_jwt(page) ==
    IF page.fail # "" THEN [ok |-> FALSE, err |-> page.fail, jwt |-> <<>>]
    ELSE IF page.ap.k = "empty"
         THEN [ok |-> FALSE, err |-> "Token payload is empty", jwt |-> <<>>]
    ELSE IF page.ap.k = "notjson"
         THEN [ok |-> FALSE, err |-> "Token payload is not valid JSON", jwt |-> <<>>]
    ELSE extract_jwt(page.ap.data)

\* fetch_token, the tenant of the fetched token.
FetchedTenant(payload) == Or(payload.tenant, payload.Tenant)

\* fetch_token on a page run: [ok, err, rec].
fetch_token(page) ==
    LET r == retrieve_jwt(page)
    IN IF ~r.ok THEN [ok |-> FALSE, err |-> r.err, rec |-> NoRecord]
       ELSE LET dec == decode_jwt_payload(r.jwt)
            IN IF ~dec.ok THEN [ok |-> FALSE, err |-> dec.err, rec |-> NoRecord]
               ELSE LET payload == dec.payload
                        tenant == FetchedTenant(payload)
                    IN IF ~Truthy(tenant)
                       THEN [ok |-> FALSE, err |-> "Tenant field not found in JWT payload",
                             rec |-> NoRecord]
                       ELSE [ok |-> TRUE, err |-> "",
                             rec |-> TokenRecord(r.jwt, PyStr(tenant), payload, FALSE)]

\* -------------------------------------------------------------- credentials
RECURSIVE LStrip(_)
LStrip(s) == IF s # <<>> /\ Head(s) = " " THEN LStrip(Tail(s)) ELSE s

RECURSIVE RStrip(_)
RStrip(s) == IF s # <<>> /\ s[Len(s)] = " " THEN RStrip(SubSeq(s, 1, Len(s) - 1)) ELSE s

\* str.strip()
Strip(s) == RStrip(LStrip(s))

\* prompt_for_credentials(login, password), with what the operator types at
\* the two prompts should they appear: [login, password, prompted].
prompt_for_credentials(login, password, typed_login, typed_password) ==
    LET login_value == Strip(login)
        password_value == password
    IN IF login_value # <<>> /\ password_value # <<>>
       THEN [login |-> login_value, password |-> password_value, prompted |-> FALSE]
       ELSE [login |-> IF login_value = <<>> THEN Strip(typed_login) ELSE login_value,
             password |-> IF password_value = <<>> THEN typed_password
                                                   ELSE password_value,
             prompted |-> TRUE]

\* ------------------------------------------------------------- input domains
JwtOf(b) == <<"h", ".", b, ".", "s">>

\* Values of the `jwt` key of a stored file.
StoredJwtValues ==
    {Null, Num(5), Str(<<"h", ".", "s">>), Str(<<".", ".">>),
     Str(<<"h", ".", "B8", ".", "s", ".", "x">>), Str(JwtOf("q"))}
    \cup {Str(JwtOf(b)) : b \in BlobNames}

\* Values of the `tenant` key of a stored file.
StoredTenantValues == {Null, Str(<<>>), Str(<<"t", "0">>), Num(7)}

\* Values of the `jwt_payload` key of a stored file: no object, or an object.
StoredPayloadValues ==
    {[isdict |-> FALSE, obj |-> NoPayload]}
    \cup {[isdict |-> TRUE, obj |-> DecodeTable[b].obj] :
             b \in {x \in BlobNames : DecodeTable[x].kind = "object"}}

\* The contents the token file can have when the program starts: written by
\* this or an older version of the program, or by anything else.
InitialFiles ==
    {AbsentFile, GarbageFile, NonObjectFile}
    \cup {[state |-> "object", jwt |-> j, tenant |-> t, jwt_payload |-> p] :
             j \in StoredJwtValues, t \in StoredTenantValues, p \in StoredPayloadValues}

LoginInputs == {<<>>, <<" ">>, <<"u">>, <<" ", "u", " ">>}

PasswordInputs == {<<>>, <<"p">>}

\* The page runs the portal can produce.
Pages ==
    {PageRun(e, "empty", ApData(NoTokens, NoTokens)) : e \in FlowErrors}
    \cup {PageRun("", "empty", ApData(NoTokens, NoTokens)),
          PageRun("", "notjson", ApData(NoTokens, NoTokens)),
          PageRun("", "json", ApData(NoTokens, NoTokens)),
          PageRun("", "json", ApData(TokenList(<<>>), NoTokens)),
          PageRun("", "json", ApData(TokenList(<<DictItem(NoKeys, 1)>>), NoTokens)),
          PageRun("", "json", ApData(TokenList(<<NumItem, StrItem(<<"h", ".", "s">>)>>),
                                     NoTokens)),
          PageRun("", "json",
                  ApData(TokenList(<<>>),
                         TokenList(<<DictItem([NoKeys EXCEPT !["token"] = Str(JwtOf("B2"))], 0)>>))),
          PageRun("", "json",
                  ApData(TokenDict(DictItem([NoKeys EXCEPT !["Jwt"] = Str(JwtOf("B3")),
                                                          !["Value"] = Num(5)], 0)),
                         NoTokens)),
          PageRun("", "json", ApData(TokenList(<<StrItem(<<".", ".">>)>>), NoTokens)),
          PageRun("", "json", ApData(TokenList(<<StrItem(JwtOf("q"))>>), NoTokens))}
    \cup {PageRun("", "json", ApData(TokenList(<<StrItem(JwtOf(b))>>), NoTokens)) :
             b \in BlobNames}

\* -------------------------------------------------------------------- state
VARIABLES
    file,        \* content of OUTPUT_PATH
    now,         \* time.time()
    pc,          \* where run() stands: idle, creds, fetch, done, failed
    invocation,  \* number of invocations of run() started so far
    file_found,  \* OUTPUT_PATH.exists() as read_existing_token found it
    load_result, \* what read_existing_token did in this invocation
    load_time,   \* the clock value at which it ran
    existing,    \* run's `existing`: [some, rec]
    login,       \* run's `login`
    password,    \* run's `password`
    attempt,     \* fetch_token_with_retry's `attempt`
    last_error,  \* fetch_token_with_retry's `last_error` ("" for None)
    token_data,  \* run's `token_data`: [some, rec]
    error,       \* the exception run() ended with: [msg, cause]
    log,         \* the calls of this invocation, in order
    previous,    \* the invocation before this one: [found, fetched], its
                 \* file_found and its token_data
    attempts,    \* this invocation's fetch_token calls, in order: [got, res], what
                 \* retrieve_jwt gave and what fetch_token gave
    call,        \* a call of one of the helper functions on its own: [fn, arg]
    result,      \* what that call returned: [done, value]
    step,        \* retrieve_jwt: the call it stands before, or idle, done, failed
    trace,       \* the calls this run of retrieve_jwt has made, in order
    flow_error,  \* the message of the exception that ended the run, "" for none
    overlay,     \* what remove_overlay did: [clicked, script]
    advance,     \* what click_next and wait_for_user_info did: [clicked, user_info]
    jwt_token,   \* retrieve_jwt's return value
    runs,        \* number of runs of retrieve_jwt started so far
    sessions,    \* number of browsers launched and not yet shut down
    waited,      \* number of polls the wait at hand has made
    dom,         \* what the wait at hand looks for, as the page has it now:
                 \* absent, hidden, empty (visible, no value), filled
    captcha,     \* what wait_for_captcha did: "" (not run), none, seen,
                 \* cleared, timeout, raised
    tool,        \* tools/eduvulcan_plan.py, main: [pc, attempt, file, jwt,
                 \* tenant, log, outcome]
    api          \* custom_components/eduvulcan/api.py, get_schedule: [pc,
                 \* store, jwt, tenant, source, session, registrations, log, error]

\* The variables of the orchestrator.
runvars == <<file, now, pc, invocation, file_found, load_result, load_time, existing,
             login, password, attempt, last_error, token_data, error, log, previous,
             attempts>>

\* The variables of a helper call.
fnvars == <<call, result>>

\* The variables of the login flow.
flowvars == <<step, trace, flow_error, overlay, advance, jwt_token, runs,
              sessions, waited, dom, captcha>>

\* The variables the orchestrator leaves alone.
\* The variables of the two clients of the token.
clientvars == <<tool, api>>

aux == <<fnvars, flowvars, clientvars>>

vars == <<runvars, aux>>

NoError == [msg |-> "", cause |-> ""]

NoCall == [fn |-> "", arg |-> Null]

Pending == [done |-> FALSE, value |-> Null]

Returned(v) == [done |-> TRUE, value |-> v]

NoOverlay == [clicked |-> 0, script |-> "none"]

NoAdvance == [clicked |-> 0, user_info |-> ""]

\* main of the tool not started.
ToolIdle ==
    [pc |-> "idle", attempt |-> 0, file |-> AbsentFile, jwt |-> Null,
     tenant |-> Null, log |-> <<>>, outcome |-> ""]

\* get_schedule not called.
ApiIdle ==
    [pc |-> "idle", store |-> Null, jwt |-> Null, tenant |-> Null,
     source |-> "", session |-> "none", registrations |-> 0, log |-> <<>>,
     error |-> ""]

\* Neither client is running.
ClientIdle == tool = ToolIdle /\ api = ApiIdle

\* retrieve_jwt not called.
FlowIdle ==
    /\ step = "idle"
    /\ trace = <<>>
    /\ flow_error = ""
    /\ overlay = NoOverlay
    /\ advance = NoAdvance
    /\ jwt_token = <<>>
    /\ runs = 0
    /\ sessions = 0
    /\ waited = 0
    /\ dom = "absent"
    /\ captcha = ""

NoLoad == [kind |-> "none", err |-> "", rec |-> NoRecord]

Nothing == [some |-> FALSE, rec |-> NoRecord]

Init ==
    /\ call = NoCall
    /\ result = Pending
    /\ FlowIdle
    /\ ClientIdle
    /\ file \in InitialFiles
    /\ now \in 0..MaxTime
    /\ pc = "idle"
    /\ invocation = 0
    /\ file_found = FALSE
    /\ load_result = NoLoad
    /\ load_time = 0
    /\ existing = Nothing
    /\ login = <<>>
    /\ password = <<>>
    /\ attempt = 0
    /\ last_error = ""
    /\ token_data = Nothing
    /\ error = NoError
    /\ log = <<>>
    /\ previous = [found |-> FALSE, fetched |-> Nothing]
    /\ attempts = <<>>

\* ------------------------------------------------------------ orchestrator
\* run, the try/except around read_existing_token: the value of `existing`.
ExistingAfterLoad(r) ==
    IF r.kind = "record" THEN [some |-> TRUE, rec |-> r.rec] ELSE Nothing

\* Mutant: the except branch does not invalidate the cache.
CallsOnLoadError_None(r) == <<>>

\* Mutant: the except branch invalidates the cache for an expired token only.
CallsOnLoadError_OnlyStale(r) ==
    IF r.kind = "raise" /\ r.err = "Stored token is expired"
    THEN <<"remove_token_file">> ELSE <<>>

\* run, the except branch: the calls it makes on the cache.
CallsOnLoadError(r) == IF r.kind = "raise" THEN <<"remove_token_file">> ELSE <<>>

\* Mutant: a self-healed record is not written back.
CallsOnReuse_None(ex) == <<>>

\* run, the `if existing:` branch: the calls it makes on the cache.
CallsOnReuse(ex) ==
    IF ex.some /\ ex.rec.needs_write THEN <<"write_token_file">> ELSE <<>>

\* Mutant: the cache hit does not return, the run goes on to the login.
AfterLoad_NoReturn(ex) == "creds"

\* run, where it goes after the load: returns (done) or goes on to credentials.
AfterLoad(ex) == IF ex.some THEN "done" ELSE "creds"

\* The file after the cache calls `calls`, writes being of record rec.
RECURSIVE ApplyCalls(_, _, _)
ApplyCalls(f, calls, rec) ==
    IF calls = <<>> THEN f
    ELSE ApplyCalls(IF Head(calls) = "remove_token_file" THEN remove_token_file(f)
                    ELSE write_token_file(rec.jwt, rec.tenant, rec.payload),
                    Tail(calls), rec)

\* run, from its start to the return of the cache-hit branch or to the
\* reading of the credentials.
RunLoad ==
    /\ UNCHANGED aux
    /\ pc \in {"idle", "done", "failed"}
    /\ invocation < MaxInvocations
    /\ LET r == read_existing_token(file, now)
           ex == ExistingAfterLoad(r)
           calls == CallsOnLoadError(r) \o CallsOnReuse(ex)
       IN /\ file_found' = (file.state # "absent")
          /\ load_result' = r
          /\ existing' = ex
          /\ file' = ApplyCalls(file, calls, ex.rec)
          /\ log' = <<"read_existing_token">> \o calls
          /\ pc' = AfterLoad(ex)
    /\ invocation' = invocation + 1
    /\ load_time' = now
    /\ login' = <<>>
    /\ password' = <<>>
    /\ attempt' = 0
    /\ last_error' = ""
    /\ token_data' = Nothing
    /\ error' = NoError
    /\ previous' = [found |-> file_found, fetched |-> token_data]
    /\ attempts' = <<>>
    /\ UNCHANGED now

\* Mutant: only the login is required.
CredentialsMissing_LoginOnly(l, p) == l = <<>>

\* run: `not login or not password`.
CredentialsMissing(l, p) == l = <<>> \/ p = <<>>

\* run, the credentials: the environment values, the prompt, the check.
Credentials ==
    /\ UNCHANGED aux
    /\ pc = "creds"
    /\ \E env_login \in LoginInputs, env_password \in PasswordInputs,
          typed_login \in LoginInputs, typed_password \in PasswordInputs :
          LET credentials == prompt_for_credentials(env_login, env_password,
                                                    typed_login, typed_password)
              l == Strip(credentials.login)
              p == credentials.password
          IN /\ login' = l
             /\ password' = p
             /\ log' = log \o (IF credentials.prompted THEN <<"prompt">> ELSE <<>>)
             /\ IF CredentialsMissing(l, p)
                THEN /\ pc' = "failed"
                     /\ error' = [msg |-> "Login and password are required", cause |-> ""]
                ELSE /\ pc' = "fetch"
                     /\ error' = error
    /\ UNCHANGED <<file, now, invocation, file_found, load_result, load_time,
                   existing, attempt, last_error, token_data, previous, attempts>>

\* Mutant: the except branch does not invalidate the cache.
CallsOnFetchError_None(att) == <<>>

\* Mutant: the except branch saves what the attempt has got so far.
CallsOnFetchError_Write(att) == <<"write_token_file">>

\* fetch_token_with_retry, the except branch: the calls it makes on the cache.
CallsOnFetchError(att) == <<"remove_token_file">>

\* Mutant: the loop runs range(3).
RetriesAfter_Twice(att) == att <= 1

\* fetch_token_with_retry, the except branch: another turn of the loop or not.
RetriesAfter(att) == att = 0

\* Mutant: last_error keeps the first error.
LastErrorAfter_First(prev, att, err) == IF att = 0 THEN err ELSE prev

\* fetch_token_with_retry, the except branch: the value of last_error.
LastErrorAfter(prev, att, err) == err

\* Mutant: run does not write the fetched record.
CallsOnFetchSuccess_None == <<>>

\* run, after fetch_token_with_retry returned: the calls it makes on the cache.
CallsOnFetchSuccess == <<"write_token_file">>

\* One turn of the loop of fetch_token_with_retry, and what run does when the
\* loop returns (the write) or raises.
FetchAttempt ==
    /\ UNCHANGED aux
    /\ pc = "fetch"
    /\ \E page \in Pages :
          LET r == fetch_token(page)
          IN /\ attempts' = Append(attempts, [got |-> retrieve_jwt(page), res |-> r])
             /\ IF r.ok
                THEN /\ token_data' = [some |-> TRUE, rec |-> r.rec]
                     /\ file' = ApplyCalls(file, CallsOnFetchSuccess, r.rec)
                     /\ log' = log \o <<"fetch_token">> \o CallsOnFetchSuccess
                     /\ pc' = "done"
                     /\ UNCHANGED <<attempt, last_error, error>>
                ELSE LET calls == CallsOnFetchError(attempt)
                         le == LastErrorAfter(last_error, attempt, r.err)
                     IN /\ last_error' = le
                        /\ file' = ApplyCalls(file, calls, NoRecord)
                        /\ log' = log \o <<"fetch_token">> \o calls
                        /\ UNCHANGED token_data
                        /\ IF RetriesAfter(attempt)
                           THEN /\ attempt' = attempt + 1
                                /\ pc' = "fetch"
                                /\ error' = error
                           ELSE /\ attempt' = attempt
                                /\ pc' = "failed"
                                /\ error' = [msg |-> "Failed to fetch token", cause |-> le]
    /\ UNCHANGED <<now, invocation, file_found, load_result, load_time, existing,
                   login, password, previous>>

\* The clock advances.
Tick ==
    /\ UNCHANGED aux
    /\ now < MaxTime
    /\ now' = now + 1
    /\ UNCHANGED <<file, pc, invocation, file_found, load_result, load_time,
                   existing, login, password, attempt, last_error, token_data,
                   error, log, previous, attempts>>

Next == RunLoad \/ Credentials \/ FetchAttempt \/ Tick

Spec == Init /\ [][Next]_vars

\* run() under asyncio.run: once the credentials are there, the attempts
\* of fetch_token_with_retry are made.
FairSpec == Spec /\ WF_vars(FetchAttempt)

\* ----------------------------------------------------- the helpers on their own
\* The encoder a caller of decode_jwt_payload uses to build a token: the
\* JSON text of an object as json.dumps writes it, its ASCII bytes, and their
\* base64url text without padding.
Ord(c) == 31 + (CHOOSE i \in 1..Len(AsciiChars) : AsciiChars[i] = c)

DumpValue(v) ==
    CASE v.k = "num"  -> Digits(v.n)
      [] v.k = "str"  -> <<"\"">> \o v.s \o <<"\"">>
      [] v.k = "list" -> <<"[", "]">>
      [] OTHER        -> <<"n", "u", "l", "l">>

DumpMember(key, v) == <<"\"">> \o key \o <<"\"", ":", " ">> \o DumpValue(v)

RECURSIVE JoinMembers(_)
JoinMembers(ms) ==
    IF ms = <<>> THEN <<>>
    ELSE IF Len(ms) = 1 THEN ms[1]
    ELSE ms[1] \o <<",", " ">> \o JoinMembers(Tail(ms))

\* json.dumps of the object whose members are the claims of P that are set.
json_dumps(P) ==
    LET e == IF P.exp.k = "null" THEN <<>>
             ELSE <<DumpMember(<<"e", "x", "p">>, P.exp)>>
        t == IF P.tenant.k = "null" THEN <<>>
             ELSE <<DumpMember(<<"t", "e", "n", "a", "n", "t">>, P.tenant)>>
        T == IF P.Tenant.k = "null" THEN <<>>
             ELSE <<DumpMember(<<"T", "e", "n", "a", "n", "t">>, P.Tenant)>>
    IN <<"{">> \o JoinMembers(e \o t \o T) \o <<"}">>

RECURSIVE EncodeTriples(_)
\* The 6-bit values of a run of bytes.
EncodeTriples(b) ==
    IF Len(b) = 0 THEN <<>>
    ELSE IF Len(b) = 1 THEN <<b[1] \div 4, (b[1] % 4) * 16>>
    ELSE IF Len(b) = 2
         THEN <<b[1] \div 4, (b[1] % 4) * 16 + (b[2] \div 16), (b[2] % 16) * 4>>
    ELSE <<b[1] \div 4, (b[1] % 4) * 16 + (b[2] \div 16),
           (b[2] % 16) * 4 + (b[3] \div 64), b[3] % 64>>
             \o EncodeTriples(SubSeq(b, 4, Len(b)))

\* The unpadded base64url text of an ASCII text.
Base64Url(text) ==
    LET v == EncodeTriples([i \in 1..Len(text) |-> Ord(text[i])])
    IN [i \in 1..Len(v) |-> Base64Chars[v[i] + 1]]

\* A JWT-shaped string with the given middle segment.
JwtWith(segment) == <<"h", ".">> \o segment \o <<".", "s">>

\* The objects that are encoded.
PayloadObjects ==
    {Payload(e, t, T) :
        e \in {Null, Str(<<"2">>)} \cup {Num(x) : x \in 0..MaxTime},
        t \in {Null, Str(<<"t", "1">>), Num(7)},
        T \in {Null, Str(<<"T", "2">>), List(0)}}

\* JSON texts of values that are no object.
NonObjectTexts ==
    {<<"1">>, <<"\"", "t", "1", "\"">>, <<"n", "u", "l", "l">>, <<"[", "]">>,
     <<"[", "1", ",", " ", "2", "]">>}

\* Texts that are no JSON.
NotJsonTexts ==
    {<<>>, <<"{">>, <<"x">>, <<"0", "1">>, <<"{", "\"", "e", "x", "p", "\"", "}">>,
     <<"{", "\"", "e", "x", "p", "\"", ":", "1", ",", "}">>, <<"{", "}", "{", "}">>}

\* Characters that are not of the base64 alphabets.
Junk(n) == [i \in 1..n |-> "!"]

\* Middle segments: encodings, encodings cut to a length that no encoding
\* has, and encodings with characters of no alphabet in or after them.
Segments ==
    LET good == {Base64Url(json_dumps(P)) : P \in PayloadObjects}
    IN good
       \cup {Base64Url(x) : x \in NonObjectTexts \cup NotJsonTexts}
       \cup {SubSeq(g, 1, 5) : g \in {x \in good : Len(x) >= 5}}
       \cup {g \o Junk(4) : g \in good}
       \cup {g \o Junk(1) : g \in good}
       \cup {<<"!">> \o Base64Url(x) \o Junk(3) : x \in NonObjectTexts}

\* The strings given to is_jwt on its own: all of length up to MaxLen over a
\* letter and the dot.
DotStrings == UNION {[1..n -> {"a", "."}] : n \in 0..MaxLen}

\* The elements of a Tokens collection given to extract_jwt on its own.
TokenItems ==
    {StrItem(<<"a", ".", "b", ".", "c">>),
     StrItem(<<"a", ".", "b">>),
     NumItem,
     DictItem(NoKeys, 1),
     DictItem([NoKeys EXCEPT !["Token"] = Str(<<"a", ".", "b">>),
                             !["value"] = Str(<<"v", ".", "v", ".", "v">>),
                             !["jwt"] = Str(<<"j", ".", "j", ".", "j">>)], 0),
     DictItem([NoKeys EXCEPT !["token"] = Num(5),
                             !["Jwt"] = Str(<<"J", ".", "J", ".", "J">>),
                             !["AccessToken"] = Str(<<"A", ".", "A", ".", "A">>),
                             !["access_token"] = Str(<<"x", ".", "y", ".", "z">>)], 2),
     DictItem([NoKeys EXCEPT !["Value"] = Str(<<".", ".">>),
                             !["Token"] = Str(<<"T", ".", "T", ".", "T">>)], 0)}

TokenValues ==
    {NoTokens}
    \cup {TokenList(its) : its \in UNION {[1..n -> TokenItems] : n \in 0..MaxItems}}
    \cup {TokenDict(it) : it \in {x \in TokenItems : x.k = "dict"}}
    \cup {TokenDict(DictItem(NoKeys, 0))}

\* ------------------------------------------------------- filling a field
\* fill_login, `labels`.
LoginLabels == <<"Login", "E-mail", "Email", "Nazwa uzytkownika", "Uzytkownik">>

\* fill_login, `selectors`.
LoginSelectors ==
    <<"input#Alias", "input[name='Alias']", "input[name='login']", "input#login",
      "input[name='email']", "input[type='email']", "input[name='username']",
      "input[type='text']">>

\* An element a locator matches: hidden (is_visible is false, and fill
\* waits for it in vain and raises), visible (fill succeeds), broken (shown,
\* but is_visible or fill raises).
CandidateStates == {"hidden", "visible", "broken"}

\* What a locator matches, in document order; or locator.count() raises.
Matches(els) == [count_raises |-> FALSE, els |-> els]

CountRaises == [count_raises |-> TRUE, els |-> <<>>]

NoMatch == Matches(<<>>)

NotFilled == [filled |-> FALSE, locator |-> 0, element |-> 0]

Filled(i, j) == [filled |-> TRUE, locator |-> i, element |-> j]

\* fill_by_labels, `locator.first.fill(value)`: the element filled, 0 when
\* the fill raises.
FirstOnly(els) == IF els[1] = "visible" THEN 1 ELSE 0

\* fill_by_labels from label i on.
RECURSIVE LabelsFrom(_, _)
LabelsFrom(locs, i) ==
    IF i > Len(locs) THEN NotFilled
    ELSE IF locs[i].count_raises \/ Len(locs[i].els) = 0 THEN LabelsFrom(locs, i + 1)
    ELSE IF FirstOnly(locs[i].els) # 0 THEN Filled(i, FirstOnly(locs[i].els))
    ELSE LabelsFrom(locs, i + 1)

fill_by_labels(locs) == LabelsFrom(locs, 1)

\* fill_by_selectors, the loop over the candidates of one selector from
\* index j on: the first one that is visible and takes the fill, 0 for none.
RECURSIVE CandidatesFrom(_, _)
CandidatesFrom(els, j) ==
    IF j > Len(els) THEN 0
    ELSE IF els[j] = "visible" THEN j
    ELSE CandidatesFrom(els, j + 1)

\* fill_by_selectors from selector i on.
RECURSIVE SelectorsFrom(_, _)
SelectorsFrom(locs, i) ==
    IF i > Len(locs) THEN NotFilled
    ELSE IF locs[i].count_raises \/ Len(locs[i].els) = 0 THEN SelectorsFrom(locs, i + 1)
    ELSE IF CandidatesFrom(locs[i].els, 1) # 0
         THEN Filled(i, CandidatesFrom(locs[i].els, 1))
    ELSE SelectorsFrom(locs, i + 1)

\* fill_by_selectors: [ok, err, by, locator, element].
fill_by_selectors(locs, field_name) ==
    LET r == SelectorsFrom(locs, 1)
    IN IF r.filled
       THEN [ok |-> TRUE, err |-> "", by |-> "selector",
             locator |-> r.locator, element |-> r.element]
       ELSE [ok |-> FALSE, err |-> "Could not find " \o field_name \o " field",
             by |-> "", locator |-> 0, element |-> 0]

\* fill_login on a page: [ok, err, by, locator, element].
fill_login(page) ==
    LET r == fill_by_labels(page.labels)
    IN IF r.filled
       THEN [ok |-> TRUE, err |-> "", by |-> "label",
             locator |-> r.locator, element |-> r.element]
       ELSE fill_by_selectors(page.selectors, "login")

\* The lists of elements a locator matches.
ElementLists == UNION {[1..n -> CandidateStates] : n \in 0..MaxItems}

Locators == {CountRaises} \cup {Matches(els) : els \in ElementLists}

\* A login page where label i finds A, label i2 finds A2 and selector j
\* finds B, and the other locators match nothing.
LoginPage(i, A, i2, A2, j, B) ==
    [labels |-> [k \in 1..Len(LoginLabels) |->
                    IF k = i THEN A ELSE IF k = i2 THEN A2 ELSE NoMatch],
     selectors |-> [k \in 1..Len(LoginSelectors) |-> IF k = j THEN B ELSE NoMatch]]

LoginPages ==
    {LoginPage(i, A, 0, NoMatch, j, B) :
        i \in {1, Len(LoginLabels)}, j \in {1, 3, Len(LoginSelectors)},
        A \in Locators, B \in Locators}
    \cup {LoginPage(1, A, 2, A2, 1, NoMatch) : A \in Locators, A2 \in Locators}

\* The calls that are made.
HelperCalls ==
    {[fn |-> "is_jwt", arg |-> v] :
        v \in {Null, Num(5), List(0)} \cup {Str(x) : x \in DotStrings}}
    \cup {[fn |-> "extract_jwt", arg |-> ApData(T, t)] :
             T \in TokenValues,
             t \in {NoTokens, TokenList(<<>>),
                    TokenList(<<StrItem(<<"l", ".", "l", ".", "l">>)>>)}}
    \cup {[fn |-> "decode_jwt_payload", arg |-> JwtWith(x)] : x \in Segments}
    \cup {[fn |-> "decode_jwt_payload", arg |-> <<"h", ".", "e", "3", "0">>]}
    \cup {[fn |-> "fill_login", arg |-> page] : page \in LoginPages}

\* The orchestrator at rest.
RunIdle ==
    /\ file = AbsentFile
    /\ now = 0
    /\ pc = "idle"
    /\ invocation = 0
    /\ file_found = FALSE
    /\ load_result = NoLoad
    /\ load_time = 0
    /\ existing = Nothing
    /\ login = <<>>
    /\ password = <<>>
    /\ attempt = 0
    /\ last_error = ""
    /\ token_data = Nothing
    /\ error = NoError
    /\ log = <<>>
    /\ previous = [found |-> FALSE, fetched |-> Nothing]
    /\ attempts = <<>>

HelperInit ==
    /\ RunIdle
    /\ FlowIdle
    /\ ClientIdle
    /\ call \in HelperCalls
    /\ result = Pending

CallIsJwt ==
    /\ call.fn = "is_jwt"
    /\ ~result.done
    /\ result' = Returned(is_jwt(call.arg))
    /\ UNCHANGED <<runvars, flowvars, clientvars, call>>

CallExtractJwt ==
    /\ call.fn = "extract_jwt"
    /\ ~result.done
    /\ result' = Returned(extract_jwt(call.arg))
    /\ UNCHANGED <<runvars, flowvars, clientvars, call>>

CallDecodeJwtPayload ==
    /\ call.fn = "decode_jwt_payload"
    /\ ~result.done
    /\ result' = Returned(decode_jwt_payload(call.arg))
    /\ UNCHANGED <<runvars, flowvars, clientvars, call>>

CallFillLogin ==
    /\ call.fn = "fill_login"
    /\ ~result.done
    /\ result' = Returned(fill_login(call.arg))
    /\ UNCHANGED <<runvars, flowvars, clientvars, call>>

HelperNext == CallIsJwt \/ CallExtractJwt \/ CallDecodeJwtPayload \/ CallFillLogin

HelperSpec == HelperInit /\ [][HelperNext]_vars

\* ------------------------------------------------- the login flow, step by step
\* What the page holds for one selector of a click loop: locator.count()
\* raises, no element, an element that is not visible, a visible element
\* whose click raises, a visible element that takes the click.
ButtonStates == {"count_raises", "absent", "hidden", "click_raises", "clickable"}

\* click_if_present: whether the element was clicked.
click_if_present(button) == button = "clickable"

RECURSIVE FirstClicked(_, _)
\* The loop `for selector in selectors: if await click_if_present(...)`, from
\* selector i on: the number of the selector that was clicked, 0 for none.
FirstClicked(buttons, i) ==
    IF i > Len(buttons) THEN 0
    ELSE IF click_if_present(buttons[i]) THEN i
    ELSE FirstClicked(buttons, i + 1)

OverlaySelectors ==
    <<"#onetrust-accept-btn-handler", "button:has-text('Akceptuj')",
      "button:has-text('Akceptuje')", "button:has-text('Zgadzam')",
      "button:has-text('Rozumiem')", "button:has-text('Accept')",
      "button:has-text('OK')">>

NextSelectors ==
    <<"#btNext", "button#btNext", "button:has-text('Dalej')", "button:has-text('Next')">>

\* The pages with respect to a list of selectors: up to one selector from
\* which on the elements take the click, the others all in one other state.
ButtonPages(selectors) ==
    {[i \in 1..Len(selectors) |-> IF k > 0 /\ i >= k THEN "clickable" ELSE b] :
        k \in 0..Len(selectors), b \in ButtonStates \ {"clickable"}}

\* The message of the exception page.evaluate raises.
ScriptError == "page.evaluate raised"

\* remove_overlay on a page whose script runs or raises: [clicked, script,
\* err].  The script is evaluated when no selector was clicked, and its
\* exception is not caught.
remove_overlay(buttons, script) ==
    LET k == FirstClicked(buttons, 1)
    IN IF k > 0 THEN [clicked |-> k, script |-> "none", err |-> ""]
       ELSE IF script = "raises"
            THEN [clicked |-> 0, script |-> "raised", err |-> ScriptError]
            ELSE [clicked |-> 0, script |-> "ran", err |-> ""]

\* click_next: [clicked, err].
click_next(buttons) ==
    LET k == FirstClicked(buttons, 1)
    IN IF k > 0 THEN [clicked |-> k, err |-> ""]
       ELSE [clicked |-> 0, err |-> "Could not find next button"]

\* The message of an exception of wait_for_response that is no timeout.
ResponseError == "wait_for_response raised"

\* wait_for_user_info: the exception that leaves it, "" for none.  The
\* timeout is caught and logged.
wait_for_user_info(outcome) == IF outcome = "raises" THEN ResponseError ELSE ""

\* Mutant: the password is filled in and the form submitted before the
\* password field is waited for.
FlowSteps_SubmitEarly ==
    <<"goto", "remove_overlay", "wait_for_login", "fill_login", "click_next",
      "wait_for_user_info", "fill_password", "wait_for_captcha", "submit_login",
      "wait_for_password", "wait_for_ap", "read_ap">>

\* The calls of retrieve_jwt on the page, in the order of its body.
FlowSteps ==
    <<"goto", "remove_overlay", "wait_for_login", "fill_login", "click_next",
      "wait_for_user_info", "wait_for_password", "fill_password", "wait_for_captcha",
      "submit_login", "wait_for_ap", "read_ap">>

\* The call after the given one, "done" after the last.
StepAfter(name) ==
    LET i == CHOOSE j \in 1..Len(FlowSteps) : FlowSteps[j] = name
    IN IF i = Len(FlowSteps) THEN "done" ELSE FlowSteps[i + 1]

\* Where an exception of a call leaves retrieve_jwt: nothing catches it.
StepOnError(name) == "failed"

\* What a locator finds of the element it names.
DomStates == {"absent", "hidden", "empty", "filled"}

\* locator.first.is_visible(): the element is there and shown.
Visible(d) == d \in {"empty", "filled"}

\* The calls of retrieve_jwt that wait for the page.
WaitSteps ==
    {"wait_for_login", "wait_for_user_info", "wait_for_password",
     "wait_for_captcha", "wait_for_ap"}

Expired_Never(n) == FALSE

\* The deadline of a wait, set when the wait starts, has passed after n polls.
Expired(n) == n >= MaxPolls

SessionsAfterExit_OnlyOnSuccess(n, err) == IF err = "" THEN n - 1 ELSE n

\* The browsers still running once retrieve_jwt is left: context.close and
\* browser.close run on the way to `return`, and leaving the
\* `async with async_playwright()` block, by return or by exception, stops
\* Playwright and the browser it launched.
SessionsAfterExit(n, err) == n - 1

\* The call ends retrieve_jwt: it raises, or it is the last one.
Leaves(name, err) == err # "" \/ StepAfter(name) = "done"

\* One call of retrieve_jwt's body returns (err = "") or raises.
Took(name, err) ==
    /\ step = name
    /\ trace' = Append(trace, name)
    /\ flow_error' = err
    /\ step' = IF err = "" THEN StepAfter(name) ELSE StepOnError(name)
    /\ waited' = 0
    /\ sessions' = IF Leaves(name, err) THEN SessionsAfterExit(sessions, err)
                   ELSE sessions

\* A wait finds nothing yet and sleeps until its next poll.
Slept(name) ==
    /\ step = name
    /\ waited' = IF waited < MaxPolls THEN waited + 1 ELSE waited
    /\ UNCHANGED <<step, trace, flow_error, sessions>>

\* One poll of a wait: it raises err past its deadline, returns when what
\* it waits for is met, sleeps otherwise.
Waits(name, met, err) ==
    IF Expired(waited) THEN Took(name, err)
    ELSE IF met THEN Took(name, "")
    ELSE Slept(name)

\* retrieve_jwt is called: Playwright starts, the browser is launched, a
\* context and a page are opened.
StartRun ==
    /\ step \in {"idle", "done", "failed"}
    /\ runs < MaxRuns
    /\ runs' = runs + 1
    /\ step' = FlowSteps[1]
    /\ trace' = <<>>
    /\ flow_error' = ""
    /\ overlay' = NoOverlay
    /\ advance' = NoAdvance
    /\ jwt_token' = <<>>
    /\ sessions' = sessions + 1
    /\ waited' = 0
    /\ dom' = "absent"
    /\ captcha' = ""
    /\ UNCHANGED <<runvars, fnvars, clientvars>>

\* The page, or the person in front of it, changes what a wait looks for.
PageChanges ==
    /\ step \in WaitSteps
    /\ \E d \in DomStates \ {dom} : dom' = d
    /\ UNCHANGED <<runvars, fnvars, clientvars, step, trace, flow_error, overlay, advance,
                   jwt_token, runs, sessions, waited, captcha>>

\* page.goto loads the login page.
Navigate ==
    /\ \E ok \in BOOLEAN : Took("goto", IF ok THEN "" ELSE "Navigation failed")
    /\ UNCHANGED <<runvars, fnvars, clientvars, overlay, advance, jwt_token, runs, dom, captcha>>

RemoveOverlay ==
    /\ \E buttons \in ButtonPages(OverlaySelectors), script \in {"runs", "raises"} :
          LET r == remove_overlay(buttons, script)
          IN /\ Took("remove_overlay", r.err)
             /\ overlay' = [clicked |-> r.clicked, script |-> r.script]
    /\ UNCHANGED <<runvars, fnvars, clientvars, advance, jwt_token, runs, dom, captcha>>

AwaitLoginField ==
    /\ Waits("wait_for_login", Visible(dom), "Timed out waiting for selectors")
    /\ UNCHANGED <<runvars, fnvars, clientvars, overlay, advance, jwt_token, runs, dom, captcha>>

FillLogin ==
    /\ \E filled \in BOOLEAN :
          Took("fill_login", IF filled THEN "" ELSE "Could not find login field")
    /\ UNCHANGED <<runvars, fnvars, clientvars, overlay, advance, jwt_token, runs, dom, captcha>>

ClickNext ==
    /\ \E buttons \in ButtonPages(NextSelectors) :
          LET r == click_next(buttons)
          IN /\ Took("click_next", r.err)
             /\ advance' = [advance EXCEPT !.clicked = r.clicked]
    /\ UNCHANGED <<runvars, fnvars, clientvars, overlay, jwt_token, runs, dom, captcha>>

\* What page.wait_for_response comes to at one poll: the response is there
\* once dom is not absent.
UserInfoOutcome(raises) ==
    IF raises THEN "raises"
    ELSE IF Expired(waited) THEN "timeout"
    ELSE IF dom # "absent" THEN "settled"
    ELSE "pending"

WaitForUserInfo ==
    /\ \E raises \in BOOLEAN :
          LET outcome == UserInfoOutcome(raises)
          IN IF outcome = "pending"
             THEN Slept("wait_for_user_info") /\ UNCHANGED advance
             ELSE /\ Took("wait_for_user_info", wait_for_user_info(outcome))
                  /\ advance' = [advance EXCEPT !.user_info = outcome]
    /\ UNCHANGED <<runvars, fnvars, clientvars, overlay, jwt_token, runs, dom, captcha>>

AwaitPasswordField ==
    /\ Waits("wait_for_password", Visible(dom), "Timed out waiting for selectors")
    /\ UNCHANGED <<runvars, fnvars, clientvars, overlay, advance, jwt_token, runs, dom, captcha>>

FillPassword ==
    /\ \E filled \in BOOLEAN :
          Took("fill_password", IF filled THEN "" ELSE "Could not find password field")
    /\ UNCHANGED <<runvars, fnvars, clientvars, overlay, advance, jwt_token, runs, dom, captcha>>

\* wait_for_captcha, `needs_attention`: a captcha element is visible.
NeedsAttention(d) == Visible(d)

CaptchaCleared_Always(d) == TRUE

\* The script page.wait_for_function polls: true unless a captcha element
\* is shown with an empty value.
CaptchaCleared(d) == d # "empty"

CaptchaTimeout == "Captcha wait timed out"

CaptchaError == "page.wait_for_function raised"

\* The probe of wait_for_captcha: it returns when no captcha is visible and
\* goes on to page.wait_for_function otherwise.
CaptchaProbe ==
    /\ captcha = ""
    /\ IF NeedsAttention(dom)
       THEN /\ step = "wait_for_captcha"
            /\ captcha' = "seen"
            /\ UNCHANGED <<step, trace, flow_error, sessions, waited>>
       ELSE /\ captcha' = "none"
            /\ Took("wait_for_captcha", "")

\* One poll of page.wait_for_function, or another exception of it.
CaptchaWait ==
    /\ captcha = "seen"
    /\ \E raises \in BOOLEAN :
          IF raises
          THEN captcha' = "raised" /\ Took("wait_for_captcha", CaptchaError)
          ELSE /\ Waits("wait_for_captcha", CaptchaCleared(dom), CaptchaTimeout)
               /\ captcha' = IF Expired(waited) THEN "timeout"
                             ELSE IF CaptchaCleared(dom) THEN "cleared"
                             ELSE captcha

WaitForCaptcha ==
    /\ CaptchaProbe \/ CaptchaWait
    /\ UNCHANGED <<runvars, fnvars, clientvars, overlay, advance, jwt_token, runs, dom>>

SubmitLogin ==
    /\ \E clicked \in BOOLEAN :
          Took("submit_login", IF clicked THEN "" ELSE "Could not find submit button")
    /\ UNCHANGED <<runvars, fnvars, clientvars, overlay, advance, jwt_token, runs, dom, captcha>>

\* page.wait_for_selector("#ap") returns once the element is shown.
AwaitTokenPayload ==
    /\ Waits("wait_for_ap", Visible(dom), "Timed out waiting for token payload")
    /\ UNCHANGED <<runvars, fnvars, clientvars, overlay, advance, jwt_token, runs, dom, captcha>>

\* The value of #ap is read, parsed and searched for the token.
ReadPayload ==
    /\ \E page \in {p \in Pages : p.fail = "" /\ (p.ap.k = "empty") = (dom = "empty")} :
          LET r == retrieve_jwt(page)
          IN /\ Took("read_ap", r.err)
             /\ jwt_token' = r.jwt
    /\ UNCHANGED <<runvars, fnvars, clientvars, overlay, advance, runs, dom, captcha>>

FlowInit ==
    /\ RunIdle
    /\ call = NoCall
    /\ result = Pending
    /\ FlowIdle
    /\ ClientIdle

FlowNext ==
    \/ StartRun
    \/ PageChanges
    \/ Navigate
    \/ RemoveOverlay
    \/ AwaitLoginField
    \/ FillLogin
    \/ ClickNext
    \/ WaitForUserInfo
    \/ AwaitPasswordField
    \/ FillPassword
    \/ WaitForCaptcha
    \/ SubmitLogin
    \/ AwaitTokenPayload
    \/ ReadPayload

FlowSpec == FlowInit /\ [][FlowNext]_vars

\* The steps retrieve_jwt takes itself, once it has been called.
FlowRuns ==
    \/ Navigate
    \/ RemoveOverlay
    \/ AwaitLoginField
    \/ FillLogin
    \/ ClickNext
    \/ WaitForUserInfo
    \/ AwaitPasswordField
    \/ FillPassword
    \/ WaitForCaptcha
    \/ SubmitLogin
    \/ AwaitTokenPayload
    \/ ReadPayload

\* The login flow under asyncio.run: the event loop keeps running the
\* coroutine, every await of which comes back, while nothing obliges the
\* page to change or a caller to call again.
FairFlowSpec == FlowSpec /\ WF_vars(FlowRuns)

\* ------------------------------------ the schedule tool (tools/eduvulcan_plan.py)
\* One entry of the tool's history: the call made and the token it had.
ToolEvent(op, jwt, tenant) == [op |-> op, jwt |-> jwt, tenant |-> tenant]

\* The token files the tool may find: none, an unreadable one, one that is
\* no object, one without tenant, one with a token of an earlier login.
ToolFiles ==
    {AbsentFile, GarbageFile, NonObjectFile,
     FileContent("object", Str(<<"o">>), Null, TRUE, NoPayload),
     FileContent("object", Str(<<"o">>), Str(<<"t">>), TRUE, NoPayload),
     FileContent("object", Str(<<"p">>), Num(7), FALSE, NoPayload)}

\* What fetch_new_token comes to: an exception before the file is written,
\* the file written and the token returned, or the file written and
\* browser.close() raising in the `finally`.
LoginOutcomes ==
    {[kind |-> "raises", jwt |-> Null, tenant |-> Null]}
    \cup {[kind |-> k, jwt |-> Str(j), tenant |-> t] :
             k \in {"returns", "close_raises"},
             j \in {<<"n">>, <<"m">>},
             t \in {Str(<<"t">>), Num(7)}}

\* fetch_new_token, the file it writes.
ToolFileWritten(jwt, tenant) ==
    FileContent("object", jwt, tenant, TRUE, Payload(Null, tenant, Null))

\* delete_token_file: the file after the call.
delete_token_file(f) == AbsentFile

\* ask_credentials: [ok, login, password].
ask_credentials(typed_login, typed_password) ==
    IF Strip(typed_login) = <<>> \/ typed_password = <<>>
    THEN [ok |-> FALSE, login |-> <<>>, password |-> <<>>]
    ELSE [ok |-> TRUE, login |-> Strip(typed_login), password |-> typed_password]

LogsInAfter_Always(att) == TRUE

\* main, the except branch: `if attempt == 1`.
LogsInAfter(att) == att = 1

ToolDeletes_Never(f) == f

\* main, the except branch of the first attempt: delete_token_file().
ToolDeletes(f) == delete_token_file(f)

\* The step of main did op with the token at hand and goes to pc.
ToolDid(op, jwt, tenant, to) ==
    [tool EXCEPT !.pc = to, !.jwt = jwt, !.tenant = tenant,
                 !.log = Append(tool.log, ToolEvent(op, jwt, tenant))]

\* main is called and enters its loop.
ToolStart ==
    /\ tool.pc = "idle"
    /\ tool' = [tool EXCEPT !.pc = "load", !.attempt = 1]
    /\ UNCHANGED <<runvars, fnvars, flowvars, api>>

\* The top of the loop body: the file is there and loads, or an exception.
ToolLoad ==
    /\ tool.pc = "load"
    /\ LET r == load_token_from_file(tool.file)
       IN tool' = IF tool.file.state = "absent" \/ ~r.ok
                  THEN ToolDid("load_failed", Null, Null, "except")
                  ELSE ToolDid("load", r.jwt, r.tenant, "schedule")
    /\ UNCHANGED <<runvars, fnvars, flowvars, api>>

\* fetch_schedule with the loaded token returns or raises.
ToolSchedule ==
    /\ tool.pc = "schedule"
    /\ \E ok \in BOOLEAN :
          tool' = [ToolDid("fetch_schedule", tool.jwt, tool.tenant,
                           IF ok THEN "done" ELSE "except")
                   EXCEPT !.outcome = IF ok THEN "finished" ELSE ""]
    /\ UNCHANGED <<runvars, fnvars, flowvars, api>>

\* The except branch: the first attempt deletes the file and asks for the
\* credentials, the second one ends the run.
ToolExcept ==
    /\ tool.pc = "except"
    /\ tool' = IF LogsInAfter(tool.attempt)
               THEN [ToolDid("delete_token_file", Null, Null, "credentials")
                     EXCEPT !.file = ToolDeletes(tool.file)]
               ELSE [tool EXCEPT !.pc = "done", !.outcome = "second attempt failed"]
    /\ UNCHANGED <<runvars, fnvars, flowvars, api>>

\* ask_credentials returns or raises; its exception ends the run.
ToolCredentials ==
    /\ tool.pc = "credentials"
    /\ \E typed_login \in LoginInputs, typed_password \in PasswordInputs :
          tool' = IF ask_credentials(typed_login, typed_password).ok
                  THEN [tool EXCEPT !.pc = "login"]
                  ELSE [tool EXCEPT !.pc = "done", !.outcome = "login failed"]
    /\ UNCHANGED <<runvars, fnvars, flowvars, api>>

\* fetch_new_token returns or raises; its exception ends the run, its
\* return starts the second turn of the loop.
ToolLogin ==
    /\ tool.pc = "login"
    /\ \E o \in LoginOutcomes :
          tool' = IF o.kind = "raises"
                  THEN [ToolDid("login_failed", Null, Null, "done")
                        EXCEPT !.outcome = "login failed"]
                  ELSE IF o.kind = "close_raises"
                  THEN [ToolDid("login_failed", Null, Null, "done")
                        EXCEPT !.outcome = "login failed",
                               !.file = ToolFileWritten(o.jwt, o.tenant)]
                  ELSE [ToolDid("login", o.jwt, o.tenant, "load")
                        EXCEPT !.file = ToolFileWritten(o.jwt, o.tenant),
                               !.attempt = tool.attempt + 1]
    /\ UNCHANGED <<runvars, fnvars, flowvars, api>>

ToolInit ==
    /\ RunIdle
    /\ call = NoCall
    /\ result = Pending
    /\ FlowIdle
    /\ api = ApiIdle
    /\ \E f \in ToolFiles : tool = [ToolIdle EXCEPT !.file = f]

ToolNext ==
    \/ ToolStart
    \/ ToolLoad
    \/ ToolSchedule
    \/ ToolExcept
    \/ ToolCredentials
    \/ ToolLogin

ToolSpec == ToolInit /\ [][ToolNext]_vars

\* ------------------------- the integration (custom_components/eduvulcan/api.py)
\* What the Store holds: nothing, or an object with or without the keys
\* jwt and tenant.
StoreData(keys, jwt, tenant) == [keys |-> keys, jwt |-> jwt, tenant |-> tenant]

EmptyStore == Null

Stores ==
    {EmptyStore,
     StoreData(FALSE, Null, Null),
     StoreData(TRUE, Str(<<"o">>), Str(<<"t">>)),
     StoreData(TRUE, Str(<<"o">>), Null)}

\* _load_token: [ok, jwt, tenant]; ValueError on no data, KeyError on a
\* missing key.
load_token(data) ==
    IF data = EmptyStore THEN [ok |-> FALSE, jwt |-> Null, tenant |-> Null]
    ELSE IF ~data.keys THEN [ok |-> FALSE, jwt |-> Null, tenant |-> Null]
    ELSE [ok |-> TRUE, jwt |-> data.jwt, tenant |-> data.tenant]

\* What _fetch_new_token comes to: an exception before the token is saved,
\* the token saved and returned, or the token saved and an exception of
\* context.storage_state or browser.close after it.  The tenant is
\* payload.get("tenant"), None when the claim is missing.
FetchOutcomes ==
    {[kind |-> "raises", jwt |-> Null, tenant |-> Null]}
    \cup {[kind |-> k, jwt |-> Str(j), tenant |-> t] :
             k \in {"returns", "saved_raises"},
             j \in {<<"n">>, <<"m">>},
             t \in {Str(<<"t">>), Null}}

\* _fetch_new_token, the Store after it.
StoreAfterFetch(data, o) ==
    IF o.kind = "raises" THEN data ELSE StoreData(TRUE, o.jwt, o.tenant)

AuthFailed == "ConfigEntryAuthFailed"

ApiEvent(op, ok) ==
    [op |-> op, ok |-> ok, jwt |-> api.jwt, tenant |-> api.tenant,
     source |-> api.source]

RefetchesAfter_Always(n) == TRUE

\* get_schedule: a failed _register_api is followed by a new token and
\* another _register_api the first time, by ConfigEntryAuthFailed the second.
RefetchesAfter(n) == n = 1

ClosesSession_Never(session) == session

\* get_schedule, the `finally`: api._session is closed when the api has one.
ClosesSession(session) == IF session = "none" THEN "none" ELSE "closed"

\* get_schedule is called.
ApiStart ==
    /\ api.pc = "idle"
    /\ api' = [api EXCEPT !.pc = "load"]
    /\ UNCHANGED <<runvars, fnvars, flowvars, tool>>

\* _load_token returns the stored token or raises.
ApiLoad ==
    /\ api.pc = "load"
    /\ LET r == load_token(api.store)
       IN api' = IF r.ok
                 THEN [api EXCEPT !.pc = "create", !.jwt = r.jwt,
                                  !.tenant = r.tenant, !.source = "store"]
                 ELSE [api EXCEPT !.pc = "fetch"]
    /\ UNCHANGED <<runvars, fnvars, flowvars, tool>>

\* _fetch_new_token, called before the api is created or after the first
\* _register_api failed.  Its exception leaves get_schedule, through the
\* `finally` when the api is there.
ApiFetch ==
    /\ api.pc = "fetch"
    /\ \E o \in FetchOutcomes :
          LET fetched == [api EXCEPT !.jwt = o.jwt, !.tenant = o.tenant,
                                     !.source = "fetch",
                                     !.store = StoreAfterFetch(api.store, o)]
              failed == [api EXCEPT !.store = StoreAfterFetch(api.store, o),
                                    !.error = "fetch failed",
                                    !.log = Append(api.log, ApiEvent("fetch", FALSE))]
          IN api' = IF o.kind = "returns"
                    THEN [fetched EXCEPT
                             !.pc = IF api.registrations = 0 THEN "create"
                                    ELSE "register",
                             !.log = Append(api.log,
                                            [op |-> "fetch", ok |-> TRUE, jwt |-> o.jwt,
                                             tenant |-> o.tenant, source |-> "fetch"])]
                    ELSE [failed EXCEPT
                             !.pc = IF api.registrations = 0 THEN "done"
                                    ELSE "finally"]
    /\ UNCHANGED <<runvars, fnvars, flowvars, tool>>

\* The credential and the api client are created; the client has its
\* session from the start or opens it with its first request.
ApiCreate ==
    /\ api.pc = "create"
    /\ \E s \in {"none", "open"} :
          api' = [api EXCEPT !.pc = "register", !.session = s,
                             !.log = Append(api.log, ApiEvent("create", TRUE))]
    /\ UNCHANGED <<runvars, fnvars, flowvars, tool>>

\* _register_api returns or raises.
ApiRegister ==
    /\ api.pc = "register"
    /\ \E ok \in BOOLEAN, opens \in BOOLEAN :
          LET n == api.registrations + 1
              called == [api EXCEPT !.registrations = n,
                                    !.session = IF opens THEN "open" ELSE api.session,
                                    !.log = Append(api.log, ApiEvent("register", ok))]
          IN api' = IF ok THEN [called EXCEPT !.pc = "accounts"]
                    ELSE IF RefetchesAfter(n) THEN [called EXCEPT !.pc = "fetch"]
                    ELSE [called EXCEPT !.pc = "finally", !.error = AuthFailed]
    /\ UNCHANGED <<runvars, fnvars, flowvars, tool>>

\* api.get_accounts and accounts[0]: an account, or an exception.
ApiAccounts ==
    /\ api.pc = "accounts"
    /\ \E ok \in BOOLEAN :
          api' = IF ok THEN [api EXCEPT !.pc = "schedule", !.session = "open"]
                 ELSE [api EXCEPT !.pc = "finally", !.error = "accounts failed"]
    /\ UNCHANGED <<runvars, fnvars, flowvars, tool>>

\* api.get_schedule returns the items or raises.
ApiSchedule ==
    /\ api.pc = "schedule"
    /\ \E ok \in BOOLEAN :
          api' = [api EXCEPT !.pc = "finally",
                             !.error = IF ok THEN "" ELSE "schedule failed"]
    /\ UNCHANGED <<runvars, fnvars, flowvars, tool>>

\* The `finally` of get_schedule.
ApiFinally ==
    /\ api.pc = "finally"
    /\ api' = [api EXCEPT !.pc = "done", !.session = ClosesSession(api.session)]
    /\ UNCHANGED <<runvars, fnvars, flowvars, tool>>

ApiInit ==
    /\ RunIdle
    /\ call = NoCall
    /\ result = Pending
    /\ FlowIdle
    /\ tool = ToolIdle
    /\ \E d \in Stores : api = [ApiIdle EXCEPT !.store = d]

ApiNext ==
    \/ ApiStart
    \/ ApiLoad
    \/ ApiFetch
    \/ ApiCreate
    \/ ApiRegister
    \/ ApiAccounts
    \/ ApiSchedule
    \/ ApiFinally

ApiSpec == ApiInit /\ [][ApiNext]_vars

\* ------------------------------------------------------------------- claims
\* The positions of call name c in the log.
Calls(c) == {i \in 1..Len(log) : log[i] = c}

FetchFailed == "Failed to fetch token"

\* C1: in an invocation where read_existing_token returns a record, run ends
\* successfully (no exception), fetch_token is never called and the
\* credentials are never asked for.
C1_CacheHitReuse ==
    load_result.kind = "record" =>
        /\ pc = "done"
        /\ error = NoError
        /\ existing = [some |-> TRUE, rec |-> load_result.rec]
        /\ Calls("fetch_token") = {}
        /\ attempts = <<>>
        /\ Calls("prompt") = {}
        /\ login = <<>> /\ password = <<>>

\* A cache hit: the load returned a record and run has ended.
C1_Witness == load_result.kind = "record" /\ pc = "done" /\ invocation = 1

\* C2: within one invocation fetch_token runs at most twice, the second run
\* only after the first one failed, and with a remove_token_file between the
\* first run and the second.
C2_RetryOnce ==
    /\ Len(attempts) <= 2
    /\ Cardinality(Calls("fetch_token")) = Len(attempts)
    /\ attempt \in {0, 1}
    /\ Len(attempts) = 2 => ~attempts[1].res.ok
    /\ \A i, j \in Calls("fetch_token") :
          i < j => \E r \in Calls("remove_token_file") : i < r /\ r < j
    /\ pc = "fetch" => Len(attempts) = attempt
    /\ pc = "fetch" /\ attempt = 1 => log[Len(log)] = "remove_token_file"

\* The login flow has run a second time.
C2_Witness == Len(attempts) = 2 /\ pc \in {"done", "failed"}

FailThenSucceed ==
    Len(attempts) = 2 /\ ~attempts[1].res.ok /\ attempts[2].res.ok

\* The file that holds exactly record rec.
FileOf(rec) == FileContent("object", Str(rec.jwt), Str(rec.tenant), TRUE, rec.payload)

\* C4 as stated: in a fail-then-succeed invocation exactly one
\* remove_token_file and exactly two fetch_token calls occur during the
\* invocation, and the record saved and returned is that of the second attempt.
C4_Original ==
    FailThenSucceed =>
        /\ Cardinality(Calls("remove_token_file")) = 1
        /\ Cardinality(Calls("fetch_token")) = 2
        /\ pc = "done"
        /\ token_data = [some |-> TRUE, rec |-> attempts[2].res.rec]
        /\ file = FileOf(attempts[2].res.rec)

\* C4 amended: in a fail-then-succeed invocation exactly one
\* remove_token_file occurs after the first fetch_token call (the one of the
\* retry), the load step adds one more exactly when read_existing_token
\* raised, exactly two fetch_token calls occur, and the record saved and
\* returned is that of the second attempt.
C4_FailThenSucceed ==
    FailThenSucceed =>
        LET first == CHOOSE i \in Calls("fetch_token") :
                        \A j \in Calls("fetch_token") : i <= j
        IN /\ Cardinality({r \in Calls("remove_token_file") : r > first}) = 1
           /\ Cardinality({r \in Calls("remove_token_file") : r < first})
                 = (IF load_result.kind = "raise" THEN 1 ELSE 0)
           /\ Cardinality(Calls("fetch_token")) = 2
           /\ Cardinality(Calls("write_token_file")) = 1
           /\ log[Len(log)] = "write_token_file"
           /\ pc = "done"
           /\ error = NoError
           /\ token_data = [some |-> TRUE, rec |-> attempts[2].res.rec]
           /\ file = FileOf(attempts[2].res.rec)

\* A fail-then-succeed invocation has ended.
C4_Witness == FailThenSucceed /\ pc = "done" /\ load_result.kind = "none"

\* run ended with a record that the login flow produced.
FetchedOk == pc = "done" /\ token_data.some

\* C5, the part all readings share: a successful login flow (first or second
\* attempt) ends with the token file holding exactly the produced record.
C5_Saved ==
    FetchedOk =>
        /\ attempts[Len(attempts)].res.ok
        /\ token_data.rec = attempts[Len(attempts)].res.rec
        /\ file = FileOf(token_data.rec)

\* The invocation before this one found no file and ended with a record
\* that its login flow produced (which it saved, C5_Saved).
AfterFreshFetch == invocation >= 2 /\ ~previous.found /\ previous.fetched.some

\* This invocation returned the record of the invocation before from the
\* cache, without a login.
Reused ==
    /\ load_result.kind = "record"
    /\ load_result.rec = previous.fetched.rec
    /\ pc = "done"
    /\ attempts = <<>>
    /\ file = FileOf(previous.fetched.rec)

\* C5 as stated: starting from an absent cache, after a successful login the
\* cache holds the new record and the next invocation returns it from the
\* cache without running the login flow.
C5_Original ==
    /\ ~file_found => C5_Saved
    /\ AfterFreshFetch => Reused

\* C5 amended: ... the next invocation returns it from the cache without
\* running the login flow, provided the record is not expired when that
\* invocation loads it (its exp, when a number, is later than the clock); an
\* expired record is deleted by that invocation, which goes on to the login.
C5_SaveThenReuse ==
    /\ ~file_found => C5_Saved
    /\ AfterFreshFetch =>
          IF is_payload_expired(previous.fetched.rec.payload, load_time)
          THEN /\ load_result.kind = "raise"
               /\ load_result.err = "Stored token is expired"
               /\ log[2] = "remove_token_file"
               /\ pc = "creds" => file = AbsentFile
          ELSE Reused

\* A second invocation has reused the record that the first one, which had
\* found no file, fetched.
C5_Witness == AfterFreshFetch /\ Reused

\* ---- vocabulary of the claims about the load
Stale == "Stored token is expired"

\* This step is the start of an invocation: run up to the end of the load.
LoadStep == invocation' = invocation + 1

\* The persisted file is a JSON object with a well-formed jwt.
WellFormed(f) == f.state = "object" /\ is_jwt(f.jwt)

\* The persisted record lacks a decoded payload.
LacksPayload(f) == ~f.jwt_payload.isdict

\* The persisted record has a payload: the stored one, or the one its jwt
\* decodes to.
HasPayload(f) ==
    WellFormed(f) /\ (LacksPayload(f) => decode_jwt_payload(f.jwt.s).ok)

PayloadOf(f) == IF LacksPayload(f) THEN decode_jwt_payload(f.jwt.s).payload
                                   ELSE f.jwt_payload.obj

\* The payload has an `exp` claim that parses as a number.
ExpIsNumber(p) == p.exp.k # "null" /\ ToFloat(p.exp).ok

\* ... and that number is at or before clock value t.
ExpNotAfter(p, t) == ExpIsNumber(p) /\ ToFloat(p.exp).x <= t

\* The tenant of a record: the stored one, else the claim `tenant`, else the
\* claim `Tenant`; a value that is empty or missing does not count.
DerivedTenant(stored, p) ==
    IF Truthy(stored) THEN stored
    ELSE IF Truthy(p.tenant) THEN p.tenant ELSE p.Tenant

TenantMissingStored == "Tenant field not found in stored JWT payload"

TenantMissingFetched == "Tenant field not found in JWT payload"

\* C6: read_existing_token never returns a record whose payload has a
\* numeric exp at or before the current time: for a persisted record with
\* such a payload it raises the stale-token error; a payload without exp, or
\* with an exp that is no number, is not treated as expired.
C6_Freshness ==
    /\ [](load_result.kind = "record" =>
             ~ExpNotAfter(load_result.rec.payload, load_time))
    /\ [][(LoadStep /\ HasPayload(file)) =>
            IF ExpNotAfter(PayloadOf(file), now)
            THEN load_result'.kind = "raise" /\ load_result'.err = Stale
            ELSE load_result'.err # Stale]_vars

\* The load rejected as stale a record whose exp, the string "2", equals the
\* clock.
C6_Witness ==
    /\ AfterFreshFetch
    /\ previous.fetched.rec.payload.exp = Str(<<"2">>)
    /\ load_time = 2
    /\ load_result.kind = "raise" /\ load_result.err = Stale

C8_FallThrough ==
    (invocation >= 1 /\ load_result.kind # "record") =>
        /\ existing = Nothing
        /\ log[1] = "read_existing_token"
        /\ (load_result.kind = "raise" /\ load_result.err # Stale) =>
              (Len(log) >= 2 /\ log[2] = "remove_token_file")
        /\ pc \in {"creds", "fetch", "done", "failed"}
        /\ pc = "done" => token_data.some /\ Len(attempts) >= 1
        /\ pc = "fetch" => login # <<>> /\ password # <<>>
        /\ pc = "failed" =>
              \/ /\ error = [msg |-> "Login and password are required", cause |-> ""]
                 /\ login = <<>> \/ password = <<>>
                 /\ attempts = <<>>
              \/ /\ error.msg = FetchFailed
                 /\ Len(attempts) = 2
                 /\ ~attempts[1].res.ok /\ ~attempts[2].res.ok
                 /\ error.cause = attempts[2].res.err

\* After a cache error that is not the stale error run has logged in.
C8_Witness ==
    /\ load_result.kind = "raise" /\ load_result.err # Stale
    /\ pc = "done" /\ token_data.some

\* C9: a persisted record with a well-formed jwt and no decoded payload is
\* no error: the load decodes the jwt, marks the record needs_write and
\* returns it, and run writes {jwt, tenant, jwt_payload} before it returns;
\* a record that has its payload is returned unmarked and is not rewritten.
C9_SelfHealing ==
    /\ []((load_result.kind = "record" /\ load_result.rec.needs_write) =>
             /\ decode_jwt_payload(load_result.rec.jwt).ok
             /\ load_result.rec.payload = decode_jwt_payload(load_result.rec.jwt).payload
             /\ log = <<"read_existing_token", "write_token_file">>
             /\ file = FileOf(load_result.rec)
             /\ pc = "done")
    /\ []((load_result.kind = "record" /\ ~load_result.rec.needs_write) =>
             log = <<"read_existing_token">>)
    /\ [][(LoadStep /\ load_result'.kind = "record") =>
            /\ load_result'.rec.needs_write = LacksPayload(file)
            /\ load_result'.rec.jwt = file.jwt.s
            /\ ~LacksPayload(file) => file' = file]_vars
    /\ [][(LoadStep /\ HasPayload(file) /\ LacksPayload(file)
              /\ ~ExpNotAfter(PayloadOf(file), now)
              /\ Truthy(DerivedTenant(file.tenant, PayloadOf(file)))) =>
            load_result'.kind = "record"]_vars

\* A self-healed record has been returned and written back.
C9_Witness ==
    /\ load_result.kind = "record" /\ load_result.rec.needs_write
    /\ pc = "done" /\ file = FileOf(load_result.rec)

JwtMissingOrMalformed(f) == f.jwt.k # "str" \/ Len(SplitDots(f.jwt.s)) # 3

NumberOfDots(x) == Cardinality({i \in 1..Len(x) : x[i] = "."})

\* A value that is a string with two dots.
TwoDotString(v) == v.k = "str" /\ NumberOfDots(v.s) = 2

\* The key priority as C13 states it.
KeyPriority == <<"Token", "token", "Value", "value",
                 "AccessToken", "access_token", "Jwt", "jwt">>

\* The candidates of one element: the element itself if it is a string, the
\* values of the keys in priority order if it is an object.
CandidatesOf(item) ==
    CASE item.k = "str"  -> <<Str(item.s)>>
      [] item.k = "dict" -> [i \in 1..Len(KeyPriority) |-> item.d[KeyPriority[i]]]
      [] OTHER           -> <<>>

RECURSIVE Candidates(_)
\* The candidates of a collection, in collection order then key priority.
Candidates(items) ==
    IF items = <<>> THEN <<>>
    ELSE CandidatesOf(Head(items)) \o Candidates(Tail(items))

\* The collection extract_jwt is given: the Tokens field, or the tokens field
\* when Tokens is missing or empty.
GivenTokens(ap_data) ==
    IF TruthyTokens(ap_data.Tokens) THEN ap_data.Tokens ELSE ap_data.tokens

Accepted(c) == {i \in 1..Len(c) : TwoDotString(c[i])}

First(S) == CHOOSE i \in S : \A j \in S : i <= j

ExtractReturned == call.fn = "extract_jwt" /\ result.done

\* C13: extract_jwt returns the first accepted candidate in collection order
\* then key priority (Token, token, Value, value, AccessToken, access_token,
\* Jwt, jwt); no later element or key overrides it, and it fails only when
\* no candidate is accepted.
C13_ExtractionOrder ==
    ExtractReturned =>
        LET c == Candidates(GivenTokens(call.arg).items)
        IN /\ Accepted(c) # {} =>
                /\ result.value.ok
                /\ result.value.jwt = c[First(Accepted(c))].s
           /\ Accepted(c) = {} => ~result.value.ok

\* A later element and a later key both hold another accepted candidate, and
\* the first one, found under a key that is not the first, is returned.
C13_Witness ==
    /\ ExtractReturned /\ result.value.ok
    /\ LET items == GivenTokens(call.arg).items
           c == Candidates(items)
       IN /\ Len(items) = 2 /\ items[1].k = "dict" /\ items[2].k = "dict"
          /\ First(Accepted(c)) \in 2..Len(KeyPriority)
          /\ \E i \in Accepted(c) : i <= Len(KeyPriority) /\ c[i].s # result.value.jwt
          /\ \E i \in Accepted(c) : i > Len(KeyPriority) /\ c[i].s # result.value.jwt

TokensMissing == "Tokens not found in login response"

JwtNotFound == "JWT token not found in Tokens"

\* C14 as stated: extract_jwt fails with "Tokens not found in login
\* response" exactly when the payload has neither a Tokens nor a tokens
\* field; when a field is present, also as an empty collection or a single
\* object, and no candidate qualifies, it fails with "JWT token not found in
\* Tokens".
C14_Original ==
    ExtractReturned =>
        LET neither == call.arg.Tokens.k = "null" /\ call.arg.tokens.k = "null"
            none == /\ Accepted(Candidates(call.arg.Tokens.items)) = {}
                    /\ Accepted(Candidates(call.arg.tokens.items)) = {}
        IN /\ (~result.value.ok /\ result.value.err = TokensMissing) <=> neither
           /\ (~neither /\ none) =>
                 (~result.value.ok /\ result.value.err = JwtNotFound)

IsJwtReturned == call.fn = "is_jwt" /\ result.done

\* Three dot-separated segments, each non-empty.
ThreeNonEmptySegments(x) ==
    /\ Len(SplitDots(x)) = 3
    /\ \A i \in 1..3 : SplitDots(x)[i] # <<>>

\* C15 as stated: is_jwt returns true if and only if the value is a string
\* of exactly three dot-separated segments, each of them non-empty.
C15_Original ==
    IsJwtReturned =>
        (result.value = TRUE
            <=> (call.arg.k = "str" /\ ThreeNonEmptySegments(call.arg.s)))

\* C16: is_jwt returns true for every string of three non-empty
\* dot-separated segments, false for every string whose number of dots is
\* not 2, and false for every value that is no string.
C16_IsJwt ==
    IsJwtReturned =>
        /\ (call.arg.k = "str" /\ ThreeNonEmptySegments(call.arg.s)) => result.value = TRUE
        /\ (call.arg.k = "str" /\ NumberOfDots(call.arg.s) # 2) => result.value = FALSE
        /\ call.arg.k # "str" => result.value = FALSE

\* is_jwt returned true for a string of three non-empty segments.
C16_Witness ==
    /\ IsJwtReturned /\ result.value = TRUE
    /\ call.arg.k = "str" /\ ThreeNonEmptySegments(call.arg.s)
DecodeReturned == call.fn = "decode_jwt_payload" /\ result.done

\* The middle segment of the string given to decode_jwt_payload.
MiddleSegment == SplitDots(call.arg)[2]

IsUrlAlphabet(c) == \E i \in 1..64 : Base64Chars[i] = c

\* Text that some byte string has as its unpadded base64url encoding.
ValidBase64Url(x) ==
    /\ \A i \in 1..Len(x) : IsUrlAlphabet(x[i])
    /\ Len(x) % 4 # 1

\* C17 as stated: a string whose middle segment is the unpadded base64url
\* encoding of a JSON object P decodes to P; a middle segment that encodes a
\* JSON scalar or array, or that is not valid base64url or not JSON, makes
\* decode_jwt_payload fail.
C17_Original ==
    (DecodeReturned /\ Len(SplitDots(call.arg)) = 3) =>
        /\ \A P \in PayloadObjects :
              MiddleSegment = Base64Url(json_dumps(P)) =>
                 (result.value.ok /\ result.value.payload = P)
        /\ (\/ ~ValidBase64Url(MiddleSegment)
            \/ \E x \in NonObjectTexts \cup NotJsonTexts : MiddleSegment = Base64Url(x))
              => ~result.value.ok

\* C17 amended: the round trip holds; a segment that encodes a scalar or an
\* array fails as no JSON object, one that encodes no JSON fails as no valid
\* JSON, one of alphabet characters whose number is one more than a multiple
\* of four fails to decode, and a string without three segments is refused.
\* Characters outside the alphabet are dropped, not refused: an encoding of
\* P followed by four of them still decodes to P.
C17_RoundTrip ==
    DecodeReturned =>
        IF Len(SplitDots(call.arg)) # 3
        THEN ~result.value.ok /\ result.value.err = "Invalid JWT format"
        ELSE /\ \A P \in PayloadObjects :
                   (\/ MiddleSegment = Base64Url(json_dumps(P))
                    \/ MiddleSegment = Base64Url(json_dumps(P)) \o Junk(4)) =>
                      (result.value.ok /\ result.value.payload = P)
             /\ (\E x \in NonObjectTexts : MiddleSegment = Base64Url(x)) =>
                   /\ ~result.value.ok
                   /\ result.value.err = "JWT payload is not a JSON object"
             /\ (\E x \in NotJsonTexts : MiddleSegment = Base64Url(x)) =>
                   /\ ~result.value.ok
                   /\ result.value.err = "JWT payload is not valid JSON"
             /\ ((\A i \in 1..Len(MiddleSegment) : IsUrlAlphabet(MiddleSegment[i]))
                    /\ Len(MiddleSegment) % 4 = 1) =>
                   /\ ~result.value.ok
                   /\ result.value.err = "Failed to decode JWT payload"

\* An object with all three claims came back from an encoding that needs
\* padding.
C17_Witness ==
    /\ DecodeReturned /\ Len(SplitDots(call.arg)) = 3
    /\ result.value.ok
    /\ Len(MiddleSegment) % 4 # 0
    /\ MiddleSegment = Base64Url(json_dumps(result.value.payload))
    /\ result.value.payload.exp.k = "num"
    /\ result.value.payload.tenant.k = "str"
    /\ result.value.payload.Tenant.k = "list"
\* The order of the steps as C18 states it, the optional advance being the
\* click on "next" and the wait for the verification call.
ClaimedOrder ==
    <<"goto", "remove_overlay", "wait_for_login", "fill_login", "click_next",
      "wait_for_user_info", "wait_for_password", "fill_password", "wait_for_captcha",
      "submit_login", "wait_for_ap", "read_ap">>

LastStep == trace[Len(trace)]

\* C18: in every run of the login flow the steps taken are an initial part
\* of navigate, overlay dismissal, await login field, fill login, optional
\* advance, await password field, fill password, captcha gate, submit, await
\* token payload, read payload, so each is taken at most once and in this
\* order; a step that fails ends the run there, and no step follows in that
\* run.
C18_FlowOrder ==
    /\ [](/\ Len(trace) <= Len(ClaimedOrder)
          /\ \A i \in 1..Len(trace) : trace[i] = ClaimedOrder[i])
    /\ [](flow_error # "" <=> step = "failed")
    /\ [](step = "failed" => Len(trace) > 0)
    /\ [](step = "done" => trace = ClaimedOrder)
    /\ [][(step = "failed" /\ runs' = runs) => trace' = trace]_vars
    /\ [][(step \notin {"idle", "done", "failed"} /\ runs' = runs /\ trace' # trace) =>
            (trace' = Append(trace, step) /\ step' # step)]_vars

\* A second run ended at the wait for the password field: no password was
\* filled in and nothing submitted.
C18_Witness ==
    /\ runs = 2 /\ step = "failed"
    /\ Len(trace) = 7 /\ LastStep = "wait_for_password"
    /\ flow_error = "Timed out waiting for selectors"

\* C19 as stated: when no "next" control is clicked, or the verification
\* call does not settle within its wait, the flow goes on to the wait for
\* the password field; the optional advance never ends the run.
C19_Original ==
    Len(trace) > 0 =>
        /\ (LastStep = "click_next" /\ advance.clicked = 0) =>
              step = "wait_for_user_info"
        /\ (LastStep = "wait_for_user_info" /\ advance.user_info = "timeout") =>
              step = "wait_for_password"
        /\ (LastStep = "click_next" \/ advance.user_info = "timeout") =>
              step # "failed"

\* C20 as stated: whatever the page does during remove_overlay, the flow
\* goes from the overlay step to the wait for the login field; when a
\* button was clicked the fallback script is not run.
C20_Original ==
    /\ (Len(trace) > 0 /\ LastStep = "remove_overlay") => step = "wait_for_login"
    /\ overlay.clicked > 0 => overlay.script = "none"
\* The run of retrieve_jwt has ended, by return or by exception.
RunEnded == step \in {"done", "failed"}

\* C21: the browser a run of retrieve_jwt launched is shut down on every way
\* out of the run, the return and every exception: none is running when no
\* run is under way, and at most one is running at any time, over a first
\* run and the run that retries it.
C21_SessionReleased ==
    /\ sessions \in {0, 1}
    /\ (step = "idle" \/ RunEnded) => sessions = 0
    /\ ~(step = "idle" \/ RunEnded) => sessions = 1

\* A second run ended by the exception of a wait, its browser shut down.
C21_Witness ==
    /\ runs = 2
    /\ step = "failed"
    /\ flow_error = "Timed out waiting for selectors"
    /\ sessions = 0

\* fill_login was called and has returned or raised.
FillReturned == call.fn = "fill_login" /\ result.done

\* The locators of a page in the order of resolution: the label locators,
\* then the structural selectors.
Resolution(page) ==
    [k \in 1..(Len(page.labels) + Len(page.selectors)) |->
        IF k <= Len(page.labels)
        THEN [by |-> "label", locator |-> k, found |-> page.labels[k]]
        ELSE [by |-> "selector", locator |-> k - Len(page.labels),
              found |-> page.selectors[k - Len(page.labels)]]]

\* The first visible element of a list that takes a fill, 0 for none.
FirstVisible(els) ==
    IF \E j \in 1..Len(els) : els[j] = "visible"
    THEN CHOOSE j \in 1..Len(els) :
            els[j] = "visible" /\ \A k \in 1..(j - 1) : els[k] # "visible"
    ELSE 0

\* The locators of a resolution that have a visible element taking a fill.
Usable(page) ==
    {k \in DOMAIN Resolution(page) : FirstVisible(Resolution(page)[k].found.els) # 0}

\* C22: fill_login goes through the label locators in their order and then
\* the structural selectors in theirs, fills the first visible match of the
\* first locator that has one taking the fill, fills that element only, and
\* raises not-found only when no locator has one.
C22_Original ==
    FillReturned =>
        LET page == call.arg
            r == result.value
        IN IF Usable(page) = {}
           THEN ~r.ok /\ r.err = "Could not find login field"
           ELSE LET k == CHOOSE x \in Usable(page) : \A y \in Usable(page) : x <= y
                    loc == Resolution(page)[k]
                IN /\ r.ok
                   /\ r.by = loc.by
                   /\ r.locator = loc.locator
                   /\ r.element = FirstVisible(loc.found.els)

\* A captcha indicator is shown on the page.
IndicatorShown == dom \in {"empty", "filled"}

\* The captcha element holds a response.
ResponseSupplied == dom = "filled"

\* submit_login has been called in this run.
Submitted == \E i \in 1..Len(trace) : trace[i] = "submit_login"

\* wait_for_captcha returns and submit_login is next.
GateOpens == step = "wait_for_captcha" /\ step' = "submit_login"

CaptchaTimedOut == captcha = "timeout" /\ flow_error = CaptchaTimeout

\* The wait for the token payload container has ended in this run.
PayloadWaitOver == \E i \in 1..Len(trace) : trace[i] = "wait_for_ap"

\* The container is on the page with an empty value attribute.
EmptyContainer == dom = "empty"

PayloadTimeout == "Timed out waiting for token payload"

\* C24: the wait for the token payload ends only when the container holds
\* a non-empty value or when its deadline has passed: a run is done only
\* with a non-empty value, and a wait that has ended on a container with an
\* empty value has ended the run with the token payload timeout.
C24_Original ==
    /\ step = "done" => dom = "filled"
    /\ (PayloadWaitOver /\ EmptyContainer) =>
          (step = "failed" /\ flow_error = PayloadTimeout)

\* An invocation of run() that has its credentials ends: it returns with
\* a record or raises "Failed to fetch token", after at most two attempts.
InvocationEnds ==
    /\ (pc = "fetch") ~> (pc \in {"done", "failed"})
    /\ [](pc = "failed" /\ attempts # <<>> => error.msg = FetchFailed)
    /\ [](pc = "done" /\ attempts # <<>> => token_data.some)

\* A run of retrieve_jwt is under way.
RunUnderWay == step \notin {"idle", "done", "failed"}

AllStagesOk(a) ==
    /\ a.got.ok
    /\ decode_jwt_payload(a.got.jwt).ok
    /\ \/ Truthy(decode_jwt_payload(a.got.jwt).payload.tenant)
       \/ Truthy(decode_jwt_payload(a.got.jwt).payload.Tenant)

\* The calls the step at hand adds to the log.
NewCalls == {i \in 1..Len(log') : i > Len(log)}

\* An attempt of fetch_token is made in the step at hand.
AttemptMade == Len(attempts') = Len(attempts) + 1

\* C26: an attempt succeeds only when every stage of it did; an attempt in
\* which a stage failed writes nothing to the cache, hands no record to
\* run, and leaves the token file absent; the cache is written on the fetch
\* path only by the step of a successful attempt, with that attempt's
\* record; and a second attempt is a whole fetch_token of its own.
C26_NoPartialSave ==
    /\ [](\A i \in 1..Len(attempts) : attempts[i].res.ok <=> AllStagesOk(attempts[i]))
    /\ [][(AttemptMade /\ ~AllStagesOk(attempts'[Len(attempts')])) =>
             /\ \A i \in NewCalls : log'[i] # "write_token_file"
             /\ file' = AbsentFile
             /\ token_data' = token_data
             /\ pc' # "done"]_vars
    /\ [][(AttemptMade /\ AllStagesOk(attempts'[Len(attempts')])) =>
             /\ file' = FileOf(attempts'[Len(attempts')].res.rec)
             /\ pc' = "done"]_vars
    /\ [](attempts # <<>> =>
             \A i \in Calls("write_token_file") :
                /\ i = Len(log)
                /\ AllStagesOk(attempts[Len(attempts)]))
    /\ [](Len(attempts) = 2 =>
             /\ ~AllStagesOk(attempts[1])
             /\ Cardinality(Calls("fetch_token")) = 2)

\* The first attempt got a JWT from the page and failed at a later stage,
\* the retry logged in again and succeeded.
C26_Witness ==
    /\ Len(attempts) = 2
    /\ attempts[1].got.ok /\ ~attempts[1].res.ok
    /\ attempts[2].res.ok
    /\ attempts[2].got # attempts[1].got
    /\ pc = "done"
    /\ file = FileOf(attempts[2].res.rec)

\* The invocation has ended successfully, by cache hit or by fresh login.
Succeeded == pc = "done"

\* The record the invocation used: the loaded one or the fetched one.
UsedRecord == IF existing.some THEN existing.rec ELSE token_data.rec

\* The downstream reader accepts the token file.
ReaderAccepts == load_token_from_file(file).ok

\* C27: after every successful invocation the token file is a JSON object
\* with the fields jwt, tenant and jwt_payload, its tenant is the tenant of
\* the record the invocation used, and load_token_from_file accepts it.
C27_Original ==
    Succeeded =>
        /\ file.state = "object"
        /\ file.jwt = Str(UsedRecord.jwt)
        /\ file.jwt_payload.isdict
        /\ file.tenant = Str(UsedRecord.tenant)
        /\ ReaderAccepts

\* The payload of a record is what the middle segment of its jwt decodes to.
Consistent(rec) ==
    /\ decode_jwt_payload(rec.jwt).ok
    /\ decode_jwt_payload(rec.jwt).payload = rec.payload

\* The load of this invocation returned a record.
Loaded == load_result.kind = "record"

\* C28: the payload of every record that read_existing_token returns or
\* fetch_token produces is the decoding of the record's jwt, and the jwt of
\* a returned record has no numeric exp at or before the time of the load.
C28_Original ==
    /\ Loaded => Consistent(load_result.rec)
    /\ Loaded => ~ExpNotAfter(decode_jwt_payload(load_result.rec.jwt).payload, load_time)
    /\ \A i \in 1..Len(attempts) :
          attempts[i].res.ok => Consistent(attempts[i].res.rec)

\* A record is returned whose jwt carries an exp that has passed.
StaleJwtServed ==
    /\ Loaded
    /\ decode_jwt_payload(load_result.rec.jwt).ok
    /\ ExpNotAfter(decode_jwt_payload(load_result.rec.jwt).payload, load_time)

\* C29: the record run writes after fetch_token_with_retry returned has no
\* numeric exp at or before the time it is saved, so that a load at that
\* time would return it.
C29_Original ==
    FetchedOk =>
        /\ ~ExpNotAfter(token_data.rec.payload, now)
        /\ read_existing_token(file, now).kind = "record"

CredentialsRequired == "Login and password are required"

\* The step at hand is the reading and the check of the credentials.
CredentialsStep == pc = "creds" /\ pc' # "creds"

\* C30: fetch_token is called only with a login that is not empty and has
\* no blanks around it and with a password that is not empty; when the
\* login or the password is empty after the environment and the prompt, run
\* raises before any login flow is started and the step changes nothing of
\* the token file: no write, no delete.
C30_CredentialPrecondition ==
    /\ []((pc = "fetch" \/ attempts # <<>> \/ Calls("fetch_token") # {}) =>
             /\ login # <<>> /\ login = Strip(login)
             /\ password # <<>>)
    /\ [][(CredentialsStep /\ (login' = <<>> \/ password' = <<>>)) =>
             /\ pc' = "failed"
             /\ error'.msg = CredentialsRequired
             /\ file' = file
             /\ attempts' = <<>>
             /\ \A i \in NewCalls : log'[i] = "prompt"]_vars
    /\ [](error.msg = CredentialsRequired =>
             /\ pc = "failed"
             /\ login = <<>> \/ password = <<>>
             /\ attempts = <<>>
             /\ Calls("fetch_token") = {}
             /\ Calls("write_token_file") = {})

\* The prompt was answered with a blank login: run has raised, and the
\* unreadable token file the load step left alone is still there.
C30_Witness ==
    /\ pc = "failed"
    /\ error.msg = CredentialsRequired
    /\ Calls("prompt") # {}
    /\ login = <<>> /\ password # <<>>
    /\ file = GarbageFile

\* The positions of the tool's history where op was done.
ToolOps(op) == {i \in 1..Len(tool.log) : tool.log[i].op = op}

\* The logins the tool has started: those that returned and those that raised.
ToolLogins == ToolOps("login") \cup ToolOps("login_failed")

\* The turns of the loop that went for the token file.
ToolTurns == ToolOps("load") \cup ToolOps("load_failed")

\* C31: in one run of the tool the loop goes for the token file at most
\* twice, fetch_schedule is called at most twice, and there is at most one login;
\* the login comes after a failed first attempt and after the deletion of
\* the token file, which is absent when the login starts; the second
\* attempt loads the token that the login wrote; a failed login ends the
\* run with no further attempt; a failed second attempt ends the run with
\* no further login.
C31_TokenLoop ==
    /\ Cardinality(ToolTurns) <= 2
    /\ Cardinality(ToolOps("fetch_schedule")) <= 2
    /\ Cardinality(ToolLogins) <= 1
    /\ tool.attempt \in {0, 1, 2}
    /\ \A l \in ToolLogins :
          /\ \E t \in ToolTurns : t < l
          /\ l > 1 /\ tool.log[l - 1].op = "delete_token_file"
          /\ Cardinality({t \in ToolTurns : t < l}) = 1
    /\ tool.pc \in {"credentials", "login"} => tool.file = AbsentFile
    /\ \A l \in ToolOps("login"), i \in ToolOps("load") \cup ToolOps("fetch_schedule") :
          i > l => /\ tool.log[i].jwt = tool.log[l].jwt
                   /\ tool.log[i].tenant = tool.log[l].tenant
    /\ \A l \in ToolOps("login") :
          Len(tool.log) > l => tool.log[l + 1].op = "load"
    /\ \A l \in ToolOps("login_failed") :
          l = Len(tool.log) /\ tool.pc = "done" /\ tool.outcome = "login failed"
    /\ tool.outcome = "login failed" => tool.pc = "done" /\ tool.attempt = 1
    /\ tool.outcome = "second attempt failed" =>
          /\ tool.pc = "done" /\ tool.attempt = 2
          /\ Cardinality(ToolOps("login")) = 1
          /\ \A l \in ToolOps("login") : l < Len(tool.log)

\* The token of the file did not pass, the tool logged in, and fetch_schedule
\* failed again with the token the login wrote: the run has ended.
C31_Witness ==
    /\ tool.outcome = "second attempt failed"
    /\ Cardinality(ToolOps("fetch_schedule")) = 2
    /\ tool.log[Len(tool.log)].op = "fetch_schedule"
    /\ tool.log[Len(tool.log)].jwt = Str(<<"n">>)
    /\ tool.log[1].jwt = Str(<<"o">>)

\* The positions of the integration's history where op was done.
ApiOps(op) == {i \in 1..Len(api.log) : api.log[i].op = op}

\* The api client has been created in this call.
ApiCreated == ApiOps("create") # {}

\* C32: in one call of get_schedule _register_api is called at most twice;
\* a second call of it comes only after the first one failed, and with the
\* token that a _fetch_new_token made after that failure returned; when the
\* second one fails too, the call raises ConfigEntryAuthFailed; and once the
\* api client was created, its session is not open when the call has ended.
C32_TokenRefresh ==
    /\ Cardinality(ApiOps("register")) <= 2
    /\ api.registrations = Cardinality(ApiOps("register"))
    /\ \A r \in ApiOps("register") : \E c \in ApiOps("create") : c < r
    /\ \A r1, r2 \in ApiOps("register") :
          r1 < r2 =>
             /\ ~api.log[r1].ok
             /\ r2 = r1 + 2
             /\ api.log[r1 + 1].op = "fetch" /\ api.log[r1 + 1].ok
             /\ api.log[r2].source = "fetch"
             /\ api.log[r2].jwt = api.log[r1 + 1].jwt
             /\ api.log[r2].tenant = api.log[r1 + 1].tenant
    /\ (\E r1, r2 \in ApiOps("register") : r1 < r2 /\ ~api.log[r2].ok) =>
          api.pc \in {"finally", "done"} /\ api.error = AuthFailed
    /\ api.error = AuthFailed => Cardinality(ApiOps("register")) = 2
    /\ ~ApiCreated => api.session = "none"
    /\ api.pc = "done" => api.session # "open"

\* The stored token was refused, a new one was fetched and refused too: the
\* call has raised and the session is closed.
C32_Witness ==
    /\ api.pc = "done"
    /\ api.error = AuthFailed
    /\ api.session = "closed"
    /\ api.log[1].op = "create" /\ api.log[1].source = "store"
    /\ api.log[Len(api.log)].jwt # api.log[1].jwt

====
